---------------------------- MODULE Spec2Model ----------------------------
(***************************************************************************)
(* A model of the intent-governed tool execution middleware: the scope     *)
(* enforcement gate (src/hooks/ScopeEnforcementHook.ts), the optimistic    *)
(* lock and the apply_patch handler (src/hooks/optimisticLock.ts,          *)
(* src/core/tools/ApplyPatchTool.ts) and the append-with-lock utility      *)
(* (src/hooks/appendWithLock.ts), the hook engine                          *)
(* (src/hooks/HookEngine.ts) and the context injector                      *)
(* (src/hooks/ContextInjectorHook.ts).                                     *)
(*                                                                         *)
(* The specifications of the module:                                       *)
(*   Spec        the gate, driven by file-tool calls of one session        *)
(*   SpecStale   the gate and the stale blocks the handlers leave          *)
(*   SpecCmd     the gate on execute_command, with the decisions file      *)
(*   SpecSelect  select_active_intent while active_intents.yaml changes    *)
(*   SpecPatch   one apply_patch update/delete/add racing a sibling writer *)
(*   SpecAppend  concurrent appendWithLock callers on one file             *)
(*   SpecAppendLive  the same callers, each scheduled fairly               *)
(*   SpecSidecar two writers of one sidecar file of .orchestration/        *)
(*   SpecEngine  the hook engine: registration, pre-hooks, post-hooks      *)
(*   SpecLock    snapshots and checkOptimisticLock on one workspace file   *)
(*   SpecLessons LessonsLearnedHook after the lock checks                  *)
(*   SpecTrace   TraceWriterHook while others write the file               *)
(*   SpecClassify  classifyCommand on commands and policy files            *)
(*   SpecRegistry  register/unregisterDestructiveTool on ToolClassifier    *)
(*   SpecScope   matchesScope on scope entries and target paths            *)
(*   SpecHistory selections while the ledger and AGENT.md change           *)
(*   SpecRanges  computeAddedRanges on the contents of a file              *)
(*   SpecMulti   one apply_patch call on a patch of several files          *)
(***************************************************************************)
EXTENDS Naturals, Sequences, FiniteSets, TLC

None == "none"

\* ------------------------------------------------------------------------
\* Generic helpers
\* ------------------------------------------------------------------------
Range(s) == {s[i] : i \in 1..Len(s)}

IsPrefix(s, t) == Len(s) <= Len(t) /\ SubSeq(t, 1, Len(s)) = s

RECURSIVE SeqOfLen(_, _)
SeqOfLen(S, n) == IF n = 0 THEN {<<>>} ELSE {Append(s, x) : s \in SeqOfLen(S, n - 1), x \in S}

SeqUpTo(S, n) == UNION {SeqOfLen(S, k) : k \in 0..n}

RECURSIVE FilterSeq(_, _)
FilterSeq(s, S) ==
    IF s = <<>> THEN <<>>
    ELSE IF Head(s) \in S THEN <<Head(s)>> \o FilterSeq(Tail(s), S)
         ELSE FilterSeq(Tail(s), S)

RECURSIVE Dedup(_)
Dedup(s) ==
    IF s = <<>> THEN <<>>
    ELSE LET d == Dedup(SubSeq(s, 1, Len(s) - 1))
             x == s[Len(s)]
         IN IF x \in Range(d) THEN d ELSE Append(d, x)

VARIABLES
    \* ---- the session and its working directory (Spec) ----
    task,           \* the Task's hook state (activeIntent, staleFileBlocks, ...)
    ignoreFile,     \* .orchestration/.intentignore: a sequence of lines
    agentMd,        \* .orchestration/AGENT.md: a sequence of text tokens
    decisionsFile,  \* .orchestration/intent-decisions.jsonl: the appended lines
    pendingAppends, \* fs.appendFile calls of recordDecision still in flight
    last,           \* the tool call the pipeline is working on, with the gate's result
    phase,          \* "idle" | "gated" | "handled": where the driver is with that call
    decisionsWritable, \* intent-decisions.jsonl can be appended to
    intentsFile,    \* .orchestration/active_intents.yaml: what reading and parsing it gives
    hist,           \* history: a select succeeded in this session (and what it read); approvals the user gave (commands; tool and targets of destructive prompts)
    \* ---- one apply_patch call on one file (SpecPatch) ----
    disk,           \* the target file: "absent" or its text
    changeType,     \* change.type of the hunk: "add" | "update" | "delete"
    isPreventFocusDisruptionEnabled, \* the experiment setting the handler reads
    hpc,            \* position of the call: pre-hook, execute, handler steps
    snapshot,       \* the entry TraceSnapshotHook stored: {before, existed}
    originalContent, \* change.originalContent, read when the patch is processed
    hResult,        \* the tool result pushed by the handler
    staleMarked,    \* markStaleFile was called on the path
    siblingWrites,  \* how many times another process wrote the file
    ph,             \* history of the race: what changed, what the final check saw
    \* ---- appendWithLock (SpecAppend) ----
    lockExists,     \* <path>.lock exists on disk
    aFile,          \* the content of the file appended to: a sequence of chunks
    apc,            \* position of each caller inside appendWithLock
    attempt,        \* the caller's loop variable `attempt`
    written,        \* how many chunks of its content the caller has appended
    aBefore,        \* the file's content when the caller entered appendWithLock
    aResult,        \* "none" | "ok" | "lock_error" | "io_error"
    sidecar,        \* which file of .orchestration/ the callers write (SpecSidecar)
    \* ---- HookEngine (SpecEngine) ----
    hooks,          \* HookEngine.hooks: the registered hooks, in registration order
    eng,            \* the tool call the engine is running hooks for
    \* ---- the trace hooks around one workspace file (SpecTrace) ----
    wsFile,         \* the workspace file s/a on disk: {exists, bytes}
    traceFile,      \* .orchestration/agent_trace.jsonl: the appended entries
    tw,             \* the hook calls in flight and what the last ones returned
    \* ---- the classifiers (SpecClassify, SpecRegistry, SpecScope) ----
    cmdCall,        \* a classifyCommand call: command, policy file, result
    registry,       \* ToolClassifier's destructiveTools set
    scopeCall,      \* a matchesScope call: scope entry, target, result
    \* ---- the added ranges of a trace entry (SpecRanges) ----
    rangeCall,      \* a computeAddedRanges call: before, after, the diff, the ranges
    \* ---- one apply_patch call on several files (SpecMulti) ----
    patchRun        \* the loop of execute over the file changes of the patch

appendVars == <<lockExists, aFile, apc, attempt, written, aBefore, aResult, sidecar>>
gateVars == <<task, ignoreFile, agentMd, decisionsFile, pendingAppends, last, phase,
              decisionsWritable, hist, intentsFile>>
patchVars == <<disk, changeType, isPreventFocusDisruptionEnabled, hpc, snapshot, originalContent,
               hResult, staleMarked, siblingWrites, ph>>
engineVars == <<hooks, eng>>
traceVars == <<wsFile, traceFile, tw>>
classVars == <<cmdCall, registry, scopeCall, rangeCall, patchRun>>
vars == <<gateVars, patchVars, appendVars, engineVars, traceVars, classVars>>

\* ------------------------------------------------------------------------
\* HookEngine  (src/hooks/HookEngine.ts)
\* ------------------------------------------------------------------------
MaxHooks == 4

\* The tools the engine is called for.
EngineTools == {"write_to_file", "select_active_intent", "read_file"}

\* The hooks of the repository: name, phase and toolFilter (filtered = FALSE
\* when the hook declares no toolFilter).
FileMutationFilter == {"write_to_file", "apply_diff", "edit", "search_and_replace",
                       "search_replace", "edit_file", "apply_patch", "generate_image"}

HookPool ==
    { [name |-> "scope_enforcement", phase |-> "pre", filtered |-> FALSE, toolFilter |-> {}],
      [name |-> "context_injector", phase |-> "pre", filtered |-> TRUE,
       toolFilter |-> {"select_active_intent"}],
      [name |-> "trace_snapshot", phase |-> "pre", filtered |-> TRUE,
       toolFilter |-> FileMutationFilter],
      [name |-> "trace_writer", phase |-> "post", filtered |-> TRUE,
       toolFilter |-> FileMutationFilter],
      [name |-> "lessons_learned", phase |-> "post", filtered |-> FALSE, toolFilter |-> {}] }

\* Message texts, as sequences of words.
NoMessage == <<>>
HookMessages == {NoMessage, <<"denied">>}
ThrownMessages == {<<"boom">>}

\* What one invocation of a pre-hook does: it resolves to a PreHookResult, or
\* it throws an Error.
PreOutcomes ==
    [kind : {"return"}, shouldProceed : {TRUE}, errorMessage : {NoMessage},
     injectedContext : BOOLEAN, modifiedParams : BOOLEAN]
    \cup [kind : {"return"}, shouldProceed : {FALSE}, errorMessage : HookMessages,
          injectedContext : {FALSE}, modifiedParams : {FALSE}]
    \cup [kind : {"throw"}, shouldProceed : {FALSE}, errorMessage : ThrownMessages,
          injectedContext : {FALSE}, modifiedParams : {FALSE}]

\* What one invocation of a post-hook does.
PostOutcomes ==
    [kind : {"return"}, success : {TRUE}, errorMessage : {NoMessage}]
    \cup [kind : {"return"}, success : {FALSE}, errorMessage : {<<"denied">>}]
    \cup [kind : {"throw"}, success : {FALSE}, errorMessage : ThrownMessages]

\* let finalResult = { shouldProceed: true }: injectedContext is the
\* concatenation so far (the contributing hooks, in order), modifiedParams the
\* hook whose params were taken last.
ProceedResult ==
    [shouldProceed |-> TRUE, errorMessage |-> NoMessage, injectedContext |-> <<>>,
     modifiedParams |-> None]

NoEngineCall ==
    [pc |-> "idle", tool |-> None, applicable |-> <<>>, invoked |-> <<>>, outcomes |-> <<>>,
     finalResult |-> ProceedResult, handled |-> FALSE,
     postApplicable |-> <<>>, postInvoked |-> <<>>, postOutcomes |-> <<>>, results |-> <<>>]

EngineIdle ==
    /\ hooks = <<>>
    /\ eng = NoEngineCall

\* registerHook: this.hooks.push(hook).
registerHook(hook) ==
    /\ eng.pc = "idle"
    /\ Len(hooks) < MaxHooks
    /\ \A k \in 1..Len(hooks) : hooks[k].name # hook.name
    /\ hooks' = Append(hooks, hook)
    /\ UNCHANGED eng
    /\ UNCHANGED <<gateVars, patchVars, appendVars, traceVars, classVars>>

\* clearHooks: this.hooks = [].
clearHooks ==
    /\ eng.pc = "idle"
    /\ hooks # <<>>
    /\ hooks' = <<>>
    /\ UNCHANGED eng
    /\ UNCHANGED <<gateVars, patchVars, appendVars, traceVars, classVars>>

\* getApplicableHooks: the registered hooks of the phase whose toolFilter is
\* absent or includes the tool, in the order of this.hooks.
getApplicableHooks(registered, toolName, hookPhase) ==
    LET applies(hook) == /\ hook.phase = hookPhase
                         /\ (~hook.filtered \/ toolName \in hook.toolFilter)
    IN SelectSeq(registered, applies)

\* The result returned when a pre-hook resolves with shouldProceed = false.
preHookBlocked(hook, result) ==
    [shouldProceed |-> FALSE,
     errorMessage |-> IF result.errorMessage # NoMessage THEN result.errorMessage
                      ELSE <<"Hook", hook.name, "blocked execution">>,
     injectedContext |-> <<>>, modifiedParams |-> None]

\* A pre-hook whose error is swallowed.
preHookErrorIgnored(error) == ProceedResult

\* The result returned from the catch block of executePreHooks.
preHookFailed(error) ==
    [shouldProceed |-> FALSE,
     errorMessage |-> <<"Hook execution failed:">> \o error,
     injectedContext |-> <<>>, modifiedParams |-> None]

\* finalResult after a pre-hook that lets the call proceed.
mergePreResult(finalResult, hook, result) ==
    [finalResult EXCEPT
        !.injectedContext = IF result.injectedContext THEN Append(@, hook.name) ELSE @,
        !.modifiedParams = IF result.modifiedParams THEN hook.name ELSE @]

\* executePreHooks is called for a tool: the applicable hooks are computed once.
StartPreHooks(toolName) ==
    /\ eng.pc = "idle"
    /\ LET applicable == getApplicableHooks(hooks, toolName, "pre")
       IN eng' = [NoEngineCall EXCEPT
                     !.pc = IF applicable = <<>> THEN "preDone" ELSE "pre",
                     !.tool = toolName,
                     !.applicable = applicable]
    /\ UNCHANGED hooks
    /\ UNCHANGED <<gateVars, patchVars, appendVars, traceVars, classVars>>

\* A loop that goes on to the next pre-hook whatever the hook returned.
PreHookStepThrough(o) ==
    /\ eng.pc = "pre"
    /\ LET i == Len(eng.invoked) + 1
           hook == eng.applicable[i]
       IN eng' = [eng EXCEPT
                     !.invoked = Append(@, hook.name),
                     !.outcomes = Append(@, o),
                     !.finalResult = IF o.kind = "throw" THEN preHookFailed(o.errorMessage)
                                     ELSE mergePreResult(@, hook, o),
                     !.pc = IF o.kind = "throw" \/ i = Len(eng.applicable)
                            THEN "preDone" ELSE "pre"]
    /\ UNCHANGED hooks
    /\ UNCHANGED <<gateVars, patchVars, appendVars, traceVars, classVars>>

\* One turn of the loop of executePreHooks: the next applicable hook is
\* awaited; a veto or a throw returns at once, otherwise the result is merged
\* and the loop goes on, returning finalResult after the last hook.
PreHookStep(o) ==
    /\ eng.pc = "pre"
    /\ LET i == Len(eng.invoked) + 1
           hook == eng.applicable[i]
           stops == o.kind = "throw" \/ ~o.shouldProceed
       IN eng' = [eng EXCEPT
                     !.invoked = Append(@, hook.name),
                     !.outcomes = Append(@, o),
                     !.finalResult = IF o.kind = "throw" THEN preHookFailed(o.errorMessage)
                                     ELSE IF ~o.shouldProceed THEN preHookBlocked(hook, o)
                                     ELSE mergePreResult(@, hook, o),
                     !.pc = IF stops \/ i = Len(eng.applicable) THEN "preDone" ELSE "pre"]
    /\ UNCHANGED hooks
    /\ UNCHANGED <<gateVars, patchVars, appendVars, traceVars, classVars>>

\* The driver surfaces a veto to the LLM as a tool result error; the handler
\* is not invoked.
RejectCall ==
    /\ eng.pc = "preDone"
    /\ ~eng.finalResult.shouldProceed
    /\ eng' = [eng EXCEPT !.pc = "rejected"]
    /\ UNCHANGED hooks
    /\ UNCHANGED <<gateVars, patchVars, appendVars, traceVars, classVars>>

\* The driver invokes the tool handler of a call the pre-hooks let through.
RunHandler ==
    /\ eng.pc = "preDone"
    /\ eng.finalResult.shouldProceed
    /\ eng' = [eng EXCEPT !.pc = "handled", !.handled = TRUE]
    /\ UNCHANGED hooks
    /\ UNCHANGED <<gateVars, patchVars, appendVars, traceVars, classVars>>

\* executePostHooks is called with the handler's result.
StartPostHooks ==
    /\ eng.pc = "handled"
    /\ LET applicable == getApplicableHooks(hooks, eng.tool, "post")
       IN eng' = [eng EXCEPT
                     !.pc = IF applicable = <<>> THEN "postDone" ELSE "post",
                     !.postApplicable = applicable]
    /\ UNCHANGED hooks
    /\ UNCHANGED <<gateVars, patchVars, appendVars, traceVars, classVars>>

\* The result pushed for one post-hook: what the hook returned, or the
\* failure record of the catch block.
postHookResult(o) ==
    IF o.kind = "throw"
    THEN [success |-> FALSE, errorMessage |-> <<"Hook execution failed:">> \o o.errorMessage]
    ELSE [success |-> o.success, errorMessage |-> o.errorMessage]

\* A loop that returns at the first post-hook that fails.
PostHookStepUntilFailure(o) ==
    /\ eng.pc = "post"
    /\ LET i == Len(eng.postInvoked) + 1
           hook == eng.postApplicable[i]
       IN eng' = [eng EXCEPT
                     !.postInvoked = Append(@, hook.name),
                     !.postOutcomes = Append(@, o),
                     !.results = Append(@, postHookResult(o)),
                     !.pc = IF ~o.success \/ i = Len(eng.postApplicable)
                            THEN "postDone" ELSE "post"]
    /\ UNCHANGED hooks
    /\ UNCHANGED <<gateVars, patchVars, appendVars, traceVars, classVars>>

\* One turn of the loop of executePostHooks: the next applicable hook is
\* awaited and one result is pushed for it; results are returned after the
\* last hook.
PostHookStep(o) ==
    /\ eng.pc = "post"
    /\ LET i == Len(eng.postInvoked) + 1
           hook == eng.postApplicable[i]
       IN eng' = [eng EXCEPT
                     !.postInvoked = Append(@, hook.name),
                     !.postOutcomes = Append(@, o),
                     !.results = Append(@, postHookResult(o)),
                     !.pc = IF i = Len(eng.postApplicable) THEN "postDone" ELSE "post"]
    /\ UNCHANGED hooks
    /\ UNCHANGED <<gateVars, patchVars, appendVars, traceVars, classVars>>

\* The driver is done with the call.
EngineFinish ==
    /\ eng.pc \in {"rejected", "postDone"}
    /\ eng' = NoEngineCall
    /\ UNCHANGED hooks
    /\ UNCHANGED <<gateVars, patchVars, appendVars, traceVars, classVars>>

\* ------------------------------------------------------------------------
\* appendWithLock  (src/hooks/appendWithLock.ts)
\* ------------------------------------------------------------------------
NProcs == 2
ChunksPerCall == 2
maxAttempts == 8

Procs == 1..NProcs

\* The content a caller appends: ChunksPerCall chunks, written by fs.appendFile
\* one after the other.
Content(p) == [k \in 1..ChunksPerCall |-> <<p, k>>]

\* The files of .orchestration/ that sessions share and append to.
SidecarFiles == {"agent_trace.jsonl", "intent-decisions.jsonl", "AGENT.md", "agent-diagnostics.jsonl"}

AppendInit ==
    /\ sidecar = "AGENT.md"
    /\ lockExists = FALSE
    /\ aFile = <<>>
    /\ apc = [p \in Procs |-> "idle"]
    /\ attempt = [p \in Procs |-> 0]
    /\ written = [p \in Procs |-> 0]
    /\ aBefore = [p \in Procs |-> <<>>]
    /\ aResult = [p \in Procs |-> None]

\* appendWithLock is entered: mkdir(dir), attempt = 1.
AppendCall(p) ==
    /\ apc[p] = "idle"
    /\ apc' = [apc EXCEPT ![p] = "open"]
    /\ attempt' = [attempt EXCEPT ![p] = 1]
    /\ aBefore' = [aBefore EXCEPT ![p] = aFile]
    /\ UNCHANGED <<lockExists, aFile, written, aResult>>
    /\ UNCHANGED <<gateVars, patchVars, sidecar, engineVars, traceVars, classVars>>

\* An open that ignores the lock file: fs.open without the exclusive flag.
OpenIgnoringLock(p) == TRUE

\* fs.open(lockPath, "wx") succeeds exactly when the lock file does not exist.
OpenSucceeds(p) == ~lockExists

\* An open that succeeds without leaving the lock file behind.
AppendOpenWithoutLock(p) ==
    /\ apc[p] = "open"
    /\ apc' = [apc EXCEPT ![p] = "append"]
    /\ UNCHANGED <<lockExists, aFile, attempt, written, aBefore, aResult>>
    /\ UNCHANGED <<gateVars, patchVars, sidecar, engineVars, traceVars, classVars>>

\* fs.open(lockPath, "wx"): exclusive create of the lock file.
AppendOpenOk(p) ==
    /\ apc[p] = "open"
    /\ OpenSucceeds(p)
    /\ lockExists' = TRUE
    /\ apc' = [apc EXCEPT ![p] = "append"]
    /\ UNCHANGED <<aFile, attempt, written, aBefore, aResult>>
    /\ UNCHANGED <<gateVars, patchVars, sidecar, engineVars, traceVars, classVars>>

\* EEXIST with attempts left: delay(25 * attempt), next iteration.
AppendRetry(p) ==
    /\ apc[p] = "open"
    /\ ~OpenSucceeds(p)
    /\ attempt[p] < maxAttempts
    /\ attempt' = [attempt EXCEPT ![p] = @ + 1]
    /\ UNCHANGED <<lockExists, aFile, apc, written, aBefore, aResult>>
    /\ UNCHANGED <<gateVars, patchVars, sidecar, engineVars, traceVars, classVars>>

\* A caller that throws the lock error on its first EEXIST.
AppendGiveUpEarly(p) ==
    /\ apc[p] = "open"
    /\ ~OpenSucceeds(p)
    /\ apc' = [apc EXCEPT ![p] = "done"]
    /\ aResult' = [aResult EXCEPT ![p] = "lock_error"]
    /\ UNCHANGED <<lockExists, aFile, attempt, written, aBefore>>
    /\ UNCHANGED <<gateVars, patchVars, sidecar, engineVars, traceVars, classVars>>

\* EEXIST on the last attempt: the lock error is thrown.
AppendGiveUp(p) ==
    /\ apc[p] = "open"
    /\ ~OpenSucceeds(p)
    /\ attempt[p] = maxAttempts
    /\ apc' = [apc EXCEPT ![p] = "done"]
    /\ aResult' = [aResult EXCEPT ![p] = "lock_error"]
    /\ UNCHANGED <<lockExists, aFile, attempt, written, aBefore>>
    /\ UNCHANGED <<gateVars, patchVars, sidecar, engineVars, traceVars, classVars>>

\* fs.open fails with an error other than EEXIST: thrown at once.
AppendOpenError(p) ==
    /\ apc[p] = "open"
    /\ apc' = [apc EXCEPT ![p] = "done"]
    /\ aResult' = [aResult EXCEPT ![p] = "io_error"]
    /\ UNCHANGED <<lockExists, aFile, attempt, written, aBefore>>
    /\ UNCHANGED <<gateVars, patchVars, sidecar, engineVars, traceVars, classVars>>

\* fs.appendFile(filePath, content): the next chunk goes to the end of the file.
AppendChunk(p) ==
    /\ apc[p] = "append"
    /\ written[p] < ChunksPerCall
    /\ aFile' = Append(aFile, Content(p)[written[p] + 1])
    /\ written' = [written EXCEPT ![p] = @ + 1]
    /\ apc' = [apc EXCEPT ![p] = IF written[p] + 1 = ChunksPerCall THEN "release" ELSE "append"]
    /\ aResult' = [aResult EXCEPT ![p] = IF written[p] + 1 = ChunksPerCall THEN "ok" ELSE @]
    /\ UNCHANGED <<lockExists, attempt, aBefore>>
    /\ UNCHANGED <<gateVars, patchVars, sidecar, engineVars, traceVars, classVars>>

\* fs.appendFile rejects (before or between chunks): the finally block still runs,
\* the error is not EEXIST and is rethrown.
AppendWriteError(p) ==
    /\ apc[p] = "append"
    /\ written[p] < ChunksPerCall
    /\ apc' = [apc EXCEPT ![p] = "release"]
    /\ aResult' = [aResult EXCEPT ![p] = "io_error"]
    /\ UNCHANGED <<lockExists, aFile, attempt, written, aBefore>>
    /\ UNCHANGED <<gateVars, patchVars, sidecar, engineVars, traceVars, classVars>>

\* finally: handle.close(), fs.unlink(lockPath); then return or rethrow.
AppendRelease(p) ==
    /\ apc[p] = "release"
    /\ lockExists' = FALSE
    /\ apc' = [apc EXCEPT ![p] = "done"]
    /\ UNCHANGED <<aFile, attempt, written, aBefore, aResult>>
    /\ UNCHANGED <<gateVars, patchVars, sidecar, engineVars, traceVars, classVars>>

\* finally, with fs.unlink(lockPath) rejecting: the rejection is swallowed
\* (line 21) and the lock file stays.
AppendUnlinkFails(p) ==
    /\ apc[p] = "release"
    /\ apc' = [apc EXCEPT ![p] = "done"]
    /\ UNCHANGED <<lockExists, aFile, attempt, written, aBefore, aResult>>
    /\ UNCHANGED <<gateVars, patchVars, sidecar, engineVars, traceVars, classVars>>

\* How each sidecar file is written: AGENT.md by LessonsLearnedHook and
\* agent-diagnostics.jsonl by the diagnostics writers, through appendWithLock;
\* agent_trace.jsonl by TraceWriterHook (line 176) and intent-decisions.jsonl by
\* recordDecision (line 635), with fs.appendFile on the file itself.
WritesThroughLock(file) == file \in {"AGENT.md", "agent-diagnostics.jsonl"}

\* A writer of the sidecar file starts: through appendWithLock, or straight
\* into fs.appendFile.
SidecarWrite(p) ==
    /\ apc[p] = "idle"
    /\ apc' = [apc EXCEPT ![p] = IF WritesThroughLock(sidecar) THEN "open" ELSE "direct"]
    /\ attempt' = [attempt EXCEPT ![p] = IF WritesThroughLock(sidecar) THEN 1 ELSE @]
    /\ aBefore' = [aBefore EXCEPT ![p] = aFile]
    /\ UNCHANGED <<lockExists, aFile, written, aResult>>
    /\ UNCHANGED <<gateVars, patchVars, sidecar, engineVars, traceVars, classVars>>

\* fs.appendFile on the file itself: the next chunk goes to the end of the file.
DirectChunk(p) ==
    /\ apc[p] = "direct"
    /\ aFile' = Append(aFile, Content(p)[written[p] + 1])
    /\ written' = [written EXCEPT ![p] = @ + 1]
    /\ apc' = [apc EXCEPT ![p] = IF written[p] + 1 = ChunksPerCall THEN "done" ELSE "direct"]
    /\ aResult' = [aResult EXCEPT ![p] = IF written[p] + 1 = ChunksPerCall THEN "ok" ELSE @]
    /\ UNCHANGED <<lockExists, attempt, aBefore>>
    /\ UNCHANGED <<gateVars, patchVars, sidecar, engineVars, traceVars, classVars>>

\* fs.appendFile on the file itself rejects.
DirectWriteError(p) ==
    /\ apc[p] = "direct"
    /\ apc' = [apc EXCEPT ![p] = "done"]
    /\ aResult' = [aResult EXCEPT ![p] = "io_error"]
    /\ UNCHANGED <<lockExists, aFile, attempt, written, aBefore>>
    /\ UNCHANGED <<gateVars, patchVars, sidecar, engineVars, traceVars, classVars>>

\* What a caller inside appendWithLock does next.
AppendStep(p) ==
    \/ AppendOpenOk(p)
    \/ AppendRetry(p)
    \/ AppendGiveUp(p)
    \/ AppendOpenError(p)
    \/ AppendChunk(p)
    \/ AppendWriteError(p)
    \/ AppendRelease(p)
    \/ AppendUnlinkFails(p)

AppendNext ==
    \E p \in Procs :
        \/ AppendCall(p)
        \/ AppendOpenOk(p)
        \/ AppendRetry(p)
        \/ AppendGiveUp(p)
        \/ AppendOpenError(p)
        \/ AppendChunk(p)
        \/ AppendWriteError(p)
        \/ AppendRelease(p)
        \/ AppendUnlinkFails(p)


\* ------------------------------------------------------------------------
\* apply_patch on one file, racing a sibling writer
\* (src/core/tools/ApplyPatchTool.ts, src/hooks/optimisticLock.ts,
\*  TraceSnapshotHook)
\* ------------------------------------------------------------------------
MaxSiblingWrites == 2

Absent == "absent"
FileContents == {"A", "B"}
NewContent == "N"

hashContent(content) == IF content = Absent THEN <<>> ELSE <<"sha256", content>>

NoResult == [type |-> None, expected_hash |-> <<>>, actual_hash |-> <<>>]

StaleFileError(expectedHash, actualHash) ==
    [type |-> "stale_file", expected_hash |-> expectedHash, actual_hash |-> actualHash]

Outcome(type) == [NoResult EXCEPT !.type = type]

\* checkOptimisticLock on the text file of the call, against its snapshot:
\* the error it returns, or NoResult for null.
checkOptimisticLock(snap, onDisk) ==
    LET actualExists == onDisk # Absent
        actualHash == hashContent(onDisk)
        expectedExists == snap.existed
        expectedHash == IF expectedExists /\ snap.before # Absent
                        THEN hashContent(snap.before) ELSE <<>>
        stale == \/ expectedExists /\ ~actualExists
                 \/ ~expectedExists /\ actualExists
                 \/ expectedExists /\ actualExists /\ expectedHash # actualHash
    IN IF stale THEN StaleFileError(expectedHash, actualHash) ELSE NoResult

\* No apply_patch call in progress.
PatchIdle ==
    /\ disk = Absent
    /\ changeType = "update"
    /\ isPreventFocusDisruptionEnabled = FALSE
    /\ hpc = "done"
    /\ snapshot = [before |-> Absent, existed |-> FALSE]
    /\ originalContent = Absent
    /\ hResult = NoResult
    /\ staleMarked = FALSE
    /\ siblingWrites = 0
    /\ ph = [changedAfterSnapshot |-> FALSE, siblingContent |-> Absent,
             atFinalCheck |-> Absent, finalChecked |-> FALSE, finalAborted |-> FALSE,
             wrote |-> FALSE, overwritten |-> Absent]

PatchInit ==
    /\ disk \in {Absent, "A"}
    /\ changeType \in {"add", "update", "delete"}
    /\ isPreventFocusDisruptionEnabled \in BOOLEAN
    /\ hpc = "snapshot"
    /\ snapshot = [before |-> Absent, existed |-> FALSE]
    /\ originalContent = Absent
    /\ hResult = NoResult
    /\ staleMarked = FALSE
    /\ siblingWrites = 0
    /\ ph = [changedAfterSnapshot |-> FALSE, siblingContent |-> Absent,
             atFinalCheck |-> Absent, finalChecked |-> FALSE, finalAborted |-> FALSE,
             wrote |-> FALSE, overwritten |-> Absent]

\* TraceSnapshotHook.execute: the pre-hook reads the target and stores
\* {before, existed} under the call's id.
TakeSnapshot ==
    /\ hpc = "snapshot"
    /\ snapshot' = [before |-> disk, existed |-> disk # Absent]
    /\ hpc' = "parse"
    /\ UNCHANGED <<disk, changeType, isPreventFocusDisruptionEnabled, originalContent, hResult,
                   staleMarked, siblingWrites, ph>>
    /\ UNCHANGED <<gateVars, appendVars, engineVars, traceVars, classVars>>

\* ApplyPatchTool.execute: processAllHunks reads the file of an update or delete
\* hunk into change.originalContent; an unreadable file fails the whole patch.
ParsePatch ==
    /\ hpc = "parse"
    /\ IF changeType = "add" THEN hpc' = "check1" /\ UNCHANGED <<originalContent, hResult>>
       ELSE IF disk = Absent
            THEN hpc' = "done" /\ hResult' = Outcome("patch_error") /\ UNCHANGED originalContent
            ELSE hpc' = "check1" /\ originalContent' = disk /\ UNCHANGED hResult
    /\ UNCHANGED <<disk, changeType, isPreventFocusDisruptionEnabled, snapshot, staleMarked,
                   siblingWrites, ph>>
    /\ UNCHANGED <<gateVars, appendVars, engineVars, traceVars, classVars>>

\* The handler's checkOptimisticLock calls: on entry and after the approval.
LockCheck(at, next) ==
    /\ hpc = at
    /\ LET err == checkOptimisticLock(snapshot, disk)
       IN IF err # NoResult
          THEN hpc' = "done" /\ hResult' = err /\ staleMarked' = TRUE
          ELSE hpc' = next /\ UNCHANGED <<hResult, staleMarked>>
    /\ UNCHANGED <<disk, changeType, isPreventFocusDisruptionEnabled, snapshot, originalContent,
                   siblingWrites, ph>>
    /\ UNCHANGED <<gateVars, appendVars, engineVars, traceVars, classVars>>

\* fileExistsAtPath: an add needs the file absent, an update or delete present.
ExistsCheck ==
    /\ hpc = "exists"
    /\ IF changeType = "add" /\ disk # Absent
       THEN hpc' = "done" /\ hResult' = Outcome("already_exists")
       ELSE IF changeType # "add" /\ disk = Absent
       THEN hpc' = "done" /\ hResult' = Outcome("not_found")
       ELSE hpc' = "approval" /\ UNCHANGED hResult
    /\ UNCHANGED <<disk, changeType, isPreventFocusDisruptionEnabled, snapshot, originalContent,
                   staleMarked, siblingWrites, ph>>
    /\ UNCHANGED <<gateVars, appendVars, engineVars, traceVars, classVars>>

\* askApproval.  An update or delete checks the lock again after the approval;
\* an add goes on to its save (through the pre-save guard when focus-disruption
\* prevention is on).
Approval(didApprove) ==
    /\ hpc = "approval"
    /\ IF didApprove
       THEN /\ hpc' = IF changeType # "add" THEN "check2"
                      ELSE IF isPreventFocusDisruptionEnabled THEN "presave" ELSE "write"
            /\ UNCHANGED hResult
       ELSE hpc' = "done" /\ hResult' = Outcome("rejected")
    /\ UNCHANGED <<disk, changeType, isPreventFocusDisruptionEnabled, snapshot, originalContent,
                   staleMarked, siblingWrites, ph>>
    /\ UNCHANGED <<gateVars, appendVars, engineVars, traceVars, classVars>>

\* The final read-and-compare of an update or delete: fs.readFile(...).catch(() =>
\* null), and a stale_file error only when the read succeeded and the text
\* differs from change.originalContent.
FinalCheck ==
    /\ hpc = "final"
    /\ ph' = [ph EXCEPT !.atFinalCheck = disk, !.finalChecked = TRUE,
                        !.finalAborted = disk # Absent /\ disk # originalContent]
    /\ LET currentContent == disk
       IN IF currentContent # Absent /\ currentContent # originalContent
          THEN /\ hpc' = "done"
               /\ hResult' = StaleFileError(hashContent(originalContent), hashContent(currentContent))
               /\ staleMarked' = TRUE
          ELSE hpc' = "write" /\ UNCHANGED <<hResult, staleMarked>>
    /\ UNCHANGED <<disk, changeType, isPreventFocusDisruptionEnabled, snapshot, originalContent,
                   siblingWrites>>
    /\ UNCHANGED <<gateVars, appendVars, engineVars, traceVars, classVars>>

\* The pre-save guard of an add, taken only when focus-disruption prevention is
\* on: a file that appeared is reported through buildStaleFileError(null, disk).
PreSaveGuard ==
    /\ hpc = "presave"
    /\ ph' = [ph EXCEPT !.atFinalCheck = disk, !.finalChecked = TRUE,
                        !.finalAborted = disk # Absent]
    /\ IF disk # Absent
       THEN /\ hpc' = "done"
            /\ hResult' = StaleFileError(<<>>, hashContent(disk))
            /\ staleMarked' = TRUE
       ELSE hpc' = "write" /\ UNCHANGED <<hResult, staleMarked>>
    /\ UNCHANGED <<disk, changeType, isPreventFocusDisruptionEnabled, snapshot, originalContent,
                   siblingWrites>>
    /\ UNCHANGED <<gateVars, appendVars, engineVars, traceVars, classVars>>

\* The write: saveDirectly / saveChanges for an add or update, fs.unlink for a
\* delete (which fails on a missing file).
WriteFile ==
    /\ hpc = "write"
    /\ IF changeType = "delete"
       THEN IF disk = Absent
            THEN hResult' = Outcome("delete_failed") /\ UNCHANGED <<disk, ph>>
            ELSE /\ disk' = Absent /\ hResult' = Outcome("ok")
                 /\ ph' = [ph EXCEPT !.wrote = TRUE, !.overwritten = disk]
       ELSE /\ disk' = NewContent /\ hResult' = Outcome("ok")
            /\ ph' = [ph EXCEPT !.wrote = TRUE, !.overwritten = disk]
    /\ hpc' = "done"
    /\ UNCHANGED <<changeType, isPreventFocusDisruptionEnabled, snapshot, originalContent,
                   staleMarked, siblingWrites>>
    /\ UNCHANGED <<gateVars, appendVars, engineVars, traceVars, classVars>>

\* diffViewProvider.saveChanges (taken when focus-disruption prevention is off)
\* may answer saveError.kind = "stale" instead of writing; the handler then
\* returns buildStaleFileError(newContent, finalContent).  Whether it notices a
\* file that changed under it is left open.
SaveChangesStale ==
    /\ hpc = "write"
    /\ changeType # "delete"
    /\ ~isPreventFocusDisruptionEnabled
    /\ disk # (IF changeType = "add" THEN Absent ELSE originalContent)
    /\ hResult' = StaleFileError(hashContent(NewContent), hashContent(disk))
    /\ staleMarked' = TRUE
    /\ hpc' = "done"
    /\ UNCHANGED <<disk, changeType, isPreventFocusDisruptionEnabled, snapshot, originalContent,
                   siblingWrites, ph>>
    /\ UNCHANGED <<gateVars, appendVars, engineVars, traceVars, classVars>>

\* Another process writes, creates or deletes the file, between the snapshot
\* and the end of the handler.
SiblingWrite(content) ==
    /\ hpc \notin {"snapshot", "done"}
    /\ siblingWrites < MaxSiblingWrites
    /\ content # disk
    /\ disk' = content
    /\ siblingWrites' = siblingWrites + 1
    /\ ph' = [ph EXCEPT !.changedAfterSnapshot = TRUE, !.siblingContent = content]
    /\ UNCHANGED <<changeType, isPreventFocusDisruptionEnabled, hpc, snapshot, originalContent,
                   hResult, staleMarked>>
    /\ UNCHANGED <<gateVars, appendVars, engineVars, traceVars, classVars>>

PatchNext ==
    \/ TakeSnapshot
    \/ ParsePatch
    \/ LockCheck("check1", "exists")
    \/ ExistsCheck
    \/ \E didApprove \in BOOLEAN : Approval(didApprove)
    \/ LockCheck("check2", "final")
    \/ FinalCheck
    \/ PreSaveGuard
    \/ WriteFile
    \/ SaveChangesStale
    \/ \E content \in FileContents \cup {Absent} : SiblingWrite(content)

\* ------------------------------------------------------------------------
\* Tool classification  (src/hooks/ToolClassifier.ts)
\* ------------------------------------------------------------------------
destructiveTools ==
    {"write_to_file", "apply_diff", "edit", "search_and_replace", "search_replace",
     "edit_file", "apply_patch", "execute_command", "generate_image"}

mutatingTools ==
    {"write_to_file", "apply_diff", "edit", "search_and_replace", "search_replace",
     "edit_file", "apply_patch", "generate_image"}

\* A classifier that calls no tool destructive.
NeverDestructive(toolName) == FALSE

isDestructiveTool(toolName) == toolName # None /\ toolName \in destructiveTools

isMutatingTool(toolName) == toolName # None /\ toolName \in mutatingTools

\* ------------------------------------------------------------------------
\* Paths.  A path string is the sequence of its segments, so "./s/a" is
\* <<".", "s", "a">> and differs, as a string, from "s/a".
\* ------------------------------------------------------------------------
RECURSIVE Resolve(_)
\* path.resolve(cwd, p) relative to cwd: "." segments dropped, ".." pops.
Resolve(p) ==
    IF p = <<>> THEN <<>>
    ELSE LET r == Resolve(SubSeq(p, 1, Len(p) - 1))
             x == p[Len(p)]
         IN IF x = "." THEN r
            ELSE IF x = ".." THEN (IF r = <<>> THEN r ELSE SubSeq(r, 1, Len(r) - 1))
            ELSE Append(r, x)

\* normalizeStaleKey: one leading "./" is stripped, nothing else is normalised.
normalizeStaleKey(relPath) ==
    IF relPath # <<>> /\ Head(relPath) = "." THEN Tail(relPath) ELSE relPath

\* path.resolve(cwd, p) seen from cwd: `up` levels above cwd, then segs.
\* The names of cwd's own directories do not occur in the paths modelled.
RECURSIVE ResolveRel(_)
ResolveRel(p) ==
    IF p = <<>> THEN [up |-> 0, segs |-> <<>>]
    ELSE LET r == ResolveRel(SubSeq(p, 1, Len(p) - 1))
             x == p[Len(p)]
         IN IF x = "." THEN r
            ELSE IF x = ".." THEN (IF r.segs = <<>> THEN [r EXCEPT !.up = @ + 1]
                                   ELSE [r EXCEPT !.segs = SubSeq(@, 1, Len(@) - 1)])
            ELSE [r EXCEPT !.segs = Append(@, x)]

\* Segment names that hold one of the characters * ? [ ].
GlobSegments == {"*", "?", "[ab]"}

\* /[*?[\]]/.test(scopePosix)
hasGlob(scope) == \E i \in 1..Len(scope) : scope[i] \in GlobSegments

\* One pattern segment against one path segment, as a glob.
segmentMatches(pat, name) ==
    CASE pat = "*" -> TRUE
      [] pat = "?" -> name \in {"s", "a", "b", "o"}
      [] pat = "[ab]" -> name \in {"a", "b"}
      [] OTHER -> pat = name

\* ignore().add(pattern).ignores(rel) for a path.relative()d rel: a pattern
\* of one segment matches a segment at any depth, a pattern with a slash is
\* anchored at the root; whatever lies beneath a match is ignored too.
ignores(pattern, rel) ==
    IF Len(pattern) = 1
    THEN \E i \in 1..Len(rel) : segmentMatches(pattern[1], rel[i])
    ELSE /\ Len(rel) >= Len(pattern)
         /\ \A i \in 1..Len(pattern) : segmentMatches(pattern[i], rel[i])

\* ignores throws for the empty path and for a path that leaves cwd ("../x").
ignoresThrows(target) ==
    LET t == ResolveRel(target) IN t.up > 0 \/ t.segs = <<>>

\* One name is a proper string prefix of the other: "s" of "sx".
StringPrefix(a, b) == a = b \/ <<a, b>> \in {<<"s", "sx">>}

\* A scope check by string prefix, without the separator.
matchesStringPrefix(scope, target) ==
    LET r == ResolveRel(scope)
        t == ResolveRel(target)
        n == Len(r.segs)
    IN /\ r.up = t.up
       /\ Len(t.segs) >= n
       /\ \A i \in 1..n : IF i < n THEN t.segs[i] = r.segs[i]
                          ELSE StringPrefix(r.segs[i], t.segs[i])

\* matchesScope(scope, absTarget, relTarget, cwd) for a target on which
\* ignores does not throw.
matchesScope(scope, target) ==
    LET absRoot == ResolveRel(scope)
        absTarget == ResolveRel(target)
    IN IF hasGlob(scope) THEN ignores(scope, absTarget.segs)
       ELSE \/ absTarget = absRoot
            \/ /\ absTarget.up = absRoot.up
               /\ Len(absTarget.segs) > Len(absRoot.segs)
               /\ SubSeq(absTarget.segs, 1, Len(absRoot.segs)) = absRoot.segs
            \/ /\ absTarget.up < absRoot.up
               /\ absRoot.segs = <<>>

\* ------------------------------------------------------------------------
\* Patch bodies and target paths  (src/hooks/traceUtils.ts)
\* A patch is a sequence of lines [indent, marker, path]; indent says the
\* line starts with white space, marker is the "*** ...: " prefix it carries.
\* An absent patch, path or command argument is the empty sequence, which
\* the code treats like the empty string.
\* ------------------------------------------------------------------------
PATCH_FILE_MARKERS == {"add", "delete", "update"}
MOVE_TO_MARKER == "move"

RECURSIVE extractPathsFromPatch(_)
\* line.startsWith(marker) is tested on the raw line: an indented marker line
\* yields no path.
extractPathsFromPatch(patch) ==
    IF patch = <<>> THEN <<>>
    ELSE LET line == Head(patch)
             here == IF ~line.indent /\ line.marker \in (PATCH_FILE_MARKERS \cup {MOVE_TO_MARKER})
                        /\ line.path # <<>>
                     THEN <<line.path>> ELSE <<>>
         IN here \o extractPathsFromPatch(Tail(patch))

\* extractTargetPaths: the patch's paths first, then params.path, then
\* nativeArgs.path; duplicates (as strings) removed, empty strings dropped.
extractTargetPaths(toolUse) ==
    LET fromPatch  == extractPathsFromPatch(toolUse.patch)
        fromParams == IF toolUse.path # <<>> THEN <<toolUse.path>> ELSE <<>>
        fromNative == IF toolUse.nPath # <<>> THEN <<toolUse.nPath>> ELSE <<>>
    IN Dedup(fromPatch \o fromParams \o fromNative)

\* ------------------------------------------------------------------------
\* Commands  (src/hooks/CommandClassifier.ts)
\* A command string is a sequence of tokens; "_" is white space, "&lt;" is
\* the HTML entity of "<".
\* ------------------------------------------------------------------------
RECURSIVE TrimLeft(_)
TrimLeft(s) == IF s # <<>> /\ Head(s) = "_" THEN TrimLeft(Tail(s)) ELSE s

RECURSIVE TrimRight(_)
TrimRight(s) == IF s # <<>> /\ s[Len(s)] = "_" THEN TrimRight(SubSeq(s, 1, Len(s) - 1)) ELSE s

Trim(s) == TrimRight(TrimLeft(s))

unescapeHtmlEntities(s) == [i \in 1..Len(s) |-> IF s[i] = "&lt;" THEN "<" ELSE s[i]]

SAFE_COMMAND_PATTERNS == {"ls", "pwd", "cat"}
DESTRUCTIVE_COMMAND_PATTERNS == {"rm", "mv", "touch"}

\* classifyCommandWithDebug with no command-policy file in the workspace.
classifyCommandWithDebug(command) ==
    LET normalized == Trim(command)
    IN IF normalized = <<>> THEN "destructive"
       ELSE IF \E i \in 1..Len(normalized) : normalized[i] \in {"<", ">"} THEN "destructive"
       ELSE IF Head(normalized) \in SAFE_COMMAND_PATTERNS THEN "safe"
       ELSE IF \E i \in 1..Len(normalized) : normalized[i] \in DESTRUCTIVE_COMMAND_PATTERNS
            THEN "destructive"
       ELSE "destructive"

\* unwrapShellCommand: "pwsh -command <inner>" yields the trimmed inner
\* command, with one pair of surrounding quotes stripped.
unwrapShellCommand(command) ==
    LET trimmed == Trim(command)
        isWrapped == /\ Len(trimmed) >= 5
                     /\ trimmed[1] \in {"pwsh", "powershell"}
                     /\ trimmed[2] = "_"
                     /\ trimmed[3] = "-command"
                     /\ trimmed[4] = "_"
        inner0 == Trim(SubSeq(trimmed, 5, Len(trimmed)))
        quoted == Len(inner0) >= 2 /\ inner0[1] = "\"" /\ inner0[Len(inner0)] = "\""
        inner == IF quoted THEN SubSeq(inner0, 2, Len(inner0) - 1) ELSE inner0
    IN IF isWrapped /\ inner0 # <<>> THEN Trim(inner) ELSE trimmed


\* ------------------------------------------------------------------------
\* Intents and the injected context  (src/hooks/ContextInjectorHook.ts)
\* ------------------------------------------------------------------------
\* .orchestration/active_intents.yaml of the modelled workspace.
active_intents ==
    << [id |-> "i1", status |-> "IN_PROGRESS", owned_scope |-> << <<"s">> >>],
       [id |-> "i2", status |-> "IN_PROGRESS", owned_scope |-> << <<"o">> >>],
       [id |-> "i3", status |-> "DONE",        owned_scope |-> << <<"s">> >>] >>

IntentIds == {active_intents[i].id : i \in 1..Len(active_intents)}

\* What fs.readFile and yaml.parse give for active_intents.yaml: the file is
\* "missing", "unreadable" (readFile rejects), "unparseable" (yaml.parse
\* throws), "nolist" (a document without an active_intents list) or a "list"
\* of intent records.
IntentsFile(kind, records) == [kind |-> kind, records |-> records]

WorkspaceIntents == IntentsFile("list", active_intents)

\* The text of a file or of the context block is a sequence of tokens
\* [tag, val]: tag "path" stands for the text <path>val</path>, any other tag
\* for text without such an element.
Tok(tag, val) == [tag |-> tag, val |-> val]

\* One line of agent_trace.jsonl links to the intent through
\* files[*].conversations[*].related.
linksTo(line, intentId) ==
    \E k \in 1..Len(line.files) : line.files[k].related = intentId

\* relatedTraces of loadIntentContext: the lines JSON.parse accepts and that
\* link to the intent, .slice(-5); rendered, one <trace_entry> per line.
relatedTraces(traceLines, intentId) ==
    LET related(line) == line.parses /\ linksTo(line, intentId)
        all == SelectSeq(traceLines, related)
    IN IF Len(all) <= 5 THEN all ELSE SubSeq(all, Len(all) - 4, Len(all))

brief_history(traceLines, intentId) ==
    LET traces == relatedTraces(traceLines, intentId)
    IN IF traces = <<>> THEN <<[tag |-> "no_previous_work", val |-> <<>>]>>
       ELSE [i \in 1..Len(traces) |-> [tag |-> "trace_entry", val |-> <<traces[i].id>>]]

\* A loader whose block tells, outside brief_history, how long the ledger is.
loadWithLedgerSize(file, intentId, sharedKnowledge, traceLines) ==
    [ok |-> file.kind = "list"
            /\ \E i \in 1..Len(file.records) :
                   file.records[i].id = intentId /\ file.records[i].status = "IN_PROGRESS",
     context |-> <<[tag |-> "id", val |-> <<intentId>>]>>
                 \o [i \in 1..Len(traceLines) |-> [tag |-> "ledger_line", val |-> <<>>]]
                 \o brief_history(traceLines, intentId)]

\* A loader that takes the first record with the id, whatever its status.
loadAnyStatus(file, intentId, sharedKnowledge, traceLines) ==
    LET found == {i \in 1..Len(file.records) : file.records[i].id = intentId}
    IN IF file.kind # "list" \/ found = {} THEN [ok |-> FALSE, context |-> <<>>]
       ELSE [ok |-> TRUE, context |-> <<[tag |-> "id", val |-> <<intentId>>]>>]

\* loadIntentContext: the file is read and parsed (either may throw), the
\* intent is looked up by id and must be IN_PROGRESS;
\* the block is one template string holding the id, one <path> element per
\* owned_scope entry, the brief history read from agent_trace.jsonl and,
\* unescaped, the content of AGENT.md.
loadIntentContext(file, intentId, sharedKnowledge, traceLines) ==
    LET found == {i \in 1..Len(file.records) : file.records[i].id = intentId}
    IN IF file.kind # "list" \/ found = {} THEN [ok |-> FALSE, context |-> <<>>]
       ELSE LET selectedIntent == file.records[CHOOSE i \in found : \A j \in found : i <= j]
            IN IF selectedIntent.status # "IN_PROGRESS" THEN [ok |-> FALSE, context |-> <<>>]
               ELSE [ok |-> TRUE,
                     context |->
                         <<Tok("id", <<selectedIntent.id>>)>>
                         \o [k \in 1..Len(selectedIntent.owned_scope) |->
                                Tok("path", selectedIntent.owned_scope[k])]
                         \o brief_history(traceLines, intentId)
                         \o (IF sharedKnowledge # <<>> THEN sharedKnowledge
                             ELSE <<Tok("no_shared_knowledge", <<>>)>>)]

\* No active intent (task.activeIntent undefined).
NoIntent == [id |-> None, context |-> <<>>]

\* getOwnedScopeFromTask: every <path>...</path> element of the context string.
getOwnedScopeFromTask(activeIntent) ==
    IF activeIntent.id = None THEN <<>>
    ELSE LET ctx == activeIntent.context
             idx == {i \in 1..Len(ctx) : ctx[i].tag = "path"}
         IN [k \in 1..Cardinality(idx) |->
                ctx[CHOOSE i \in idx : Cardinality({j \in idx : j <= i}) = k].val]

\* The owned_scope the intent file declares for an intent id.
DeclaredScope(intentId) ==
    LET i == CHOOSE j \in 1..Len(active_intents) : active_intents[j].id = intentId
    IN Range(active_intents[i].owned_scope)

\* ContextInjectorHook.execute for select_active_intent: nativeArgs.intent_id ??
\* params.intent_id; with none given the auto-select takes the single
\* IN_PROGRESS intent if there is exactly one; task.activeIntent is assigned only
\* when the context loads.
ContextInjectorHook(file, t, toolUse, sharedKnowledge, traceLines) ==
    LET given == IF toolUse.nIntent # None THEN toolUse.nIntent ELSE toolUse.pIntent
        inProgress == IF file.kind # "list" THEN {}
                      ELSE {i \in 1..Len(file.records) : file.records[i].status = "IN_PROGRESS"}
        intent_id == IF given # None THEN given
                     ELSE IF Cardinality(inProgress) = 1
                          THEN file.records[CHOOSE i \in inProgress : TRUE].id
                          ELSE None
        loaded == loadIntentContext(file, intent_id, sharedKnowledge, traceLines)
    IN IF intent_id = None
       THEN [task |-> t, shouldProceed |-> FALSE, error_type |-> "missing_intent"]
       ELSE IF ~loaded.ok
       THEN [task |-> t, shouldProceed |-> FALSE, error_type |-> "load_failed"]
       ELSE [task |-> [t EXCEPT !.activeIntent = [id |-> intent_id, context |-> loaded.context]],
             shouldProceed |-> TRUE, error_type |-> None]

\* SelectActiveIntentTool.execute up to its own checks of the intent: the
\* handler is given params.intent_id, reads active_intents.yaml again and
\* pushes an error (missing parameter, unreadable, unparseable, not found,
\* not IN_PROGRESS) or goes on to build the tool result (None).
SelectActiveIntentTool(file, intent_id) ==
    IF intent_id = None THEN "missing_param"
    ELSE IF file.kind \in {"missing", "unreadable"} THEN "read_error"
    ELSE IF file.kind = "unparseable" THEN "parse_error"
    ELSE IF file.kind # "list" \/ \A i \in 1..Len(file.records) : file.records[i].id # intent_id
    THEN "not_found"
    ELSE LET selectedIntent ==
                 file.records[CHOOSE i \in 1..Len(file.records) :
                                  /\ file.records[i].id = intent_id
                                  /\ \A j \in 1..(i - 1) : file.records[j].id # intent_id]
         IN IF selectedIntent.status # "IN_PROGRESS" THEN "not_in_progress" ELSE None

\* ------------------------------------------------------------------------
\* Stale blocks  (src/hooks/optimisticLock.ts)
\* ------------------------------------------------------------------------
markStaleFile(t, relPath) ==
    [t EXCEPT !.staleFileBlocks = @ \cup {normalizeStaleKey(relPath)}]

\* A store that forgets no block.
keepStaleFile(t, relPath) == t

clearStaleFile(t, relPath) ==
    [t EXCEPT !.staleFileBlocks = @ \ {normalizeStaleKey(relPath)}]

getStaleFileBlock(t, relPath) == normalizeStaleKey(relPath) \in t.staleFileBlocks


\* ------------------------------------------------------------------------
\* The scope enforcement gate  (src/hooks/ScopeEnforcementHook.ts)
\*
\* execute is computed over a call context c:
\*   task      the Task's hook state as the call leaves it
\*   toolUse   the ToolUse block (applyMutationMetadata writes into it)
\*   answers   what the user will answer to the modal prompts, in order
\*   prompts   the prompts shown so far, each with its answer
\*   recorded  the decisions handed to recordDecision so far
\*   res       the PreHookResult, once done says execute has returned
\* ------------------------------------------------------------------------
\* serializeHookError: error_type and code, with the extras the veto adds: a
\* path (path, filename; <<>> when absent) and a value (provided_intent_id,
\* mutation_class; None when absent).
NoError == [error_type |-> None, code |-> None, message |-> None, path |-> <<>>, value |-> None]

HookError(type, code, path, value) ==
    [error_type |-> type, code |-> code, message |-> None, path |-> path, value |-> value]

Proceed == [shouldProceed |-> TRUE, error |-> NoError]

Veto(err) == [shouldProceed |-> FALSE, error |-> err]

\* The veto of lines 45-51 carries a plain sentence, not a serialized error.
NoActiveIntentMessage == [NoError EXCEPT !.message = "No active intent selected"]

Return(c, r) == [c EXCEPT !.res = r, !.done = TRUE]

\* promptApproval: a modal dialog; a dismissed dialog counts as a rejection.
promptApproval(c, kind, subject) ==
    LET a == IF c.answers = <<>> THEN FALSE ELSE Head(c.answers)
    IN [c EXCEPT !.prompts = Append(@, [kind |-> kind, subject |-> subject, approved |-> a]),
                 !.answers = IF @ = <<>> THEN @ ELSE Tail(@)]

Approved(c) == c.prompts[Len(c.prompts)].approved

Word(approved) == IF approved THEN "approved" ELSE "rejected"

Decision(intent_id, tool, decision, reason, targets, command) ==
    [intent_id |-> intent_id, tool |-> tool, decision |-> decision, reason |-> reason,
     targets |-> targets, command |-> command]

\* recordDecision pushes the entry to task.intentDecisions and starts an
\* unawaited fs.appendFile of its line; both are kept as the call's additions.
recordDecision(c, d) == [c EXCEPT !.recorded = Append(@, d)]

\* A gate that reads no .intentignore.
noIgnoredIntents(ignoreLines) == {}

\* The lines of .intentignore in effect: trimmed, non-empty, not a comment.
IgnoredIntentIds(ignoreLines) ==
    {ignoreLines[i].text : i \in {j \in 1..Len(ignoreLines) : ~ignoreLines[j].comment}}

hashUserMessage(text) == <<"sha256", text>>

\* No UserIntentClassification (null / undefined).
NoClassification == [verdict |-> None, messageHash |-> <<>>]

\* getUserIntentClassification: no user text gives null; a cached
\* classification of the same message is reused; otherwise classifyUserIntent
\* answers `verdict` and the result is cached on the task.
getUserIntentClassification(c, verdict) ==
    LET userText == c.task.lastUserMessageText
        cached == c.task.lastUserIntentClassification
    IN IF userText = None THEN [c |-> c, cls |-> NoClassification]
       ELSE IF cached.verdict # None /\ cached.messageHash = hashUserMessage(userText)
            THEN [c |-> c, cls |-> cached]
       ELSE LET result == [verdict |-> verdict, messageHash |-> hashUserMessage(userText)]
            IN [c |-> [c EXCEPT !.task.lastUserIntentClassification = result], cls |-> result]

\* An approval key is the message hash, else "<tool>:<paths joined>", else null.
ApprovalKey(hash, tool, paths) == [hash |-> hash, tool |-> tool, paths |-> paths]

NoKey == ApprovalKey(<<>>, None, <<>>)

getDestructiveApprovalKey(cls, toolUse, targetPaths) ==
    IF cls.verdict # None THEN ApprovalKey(cls.messageHash, None, <<>>)
    ELSE IF targetPaths # <<>> THEN ApprovalKey(<<>>, toolUse.name, targetPaths)
    ELSE NoKey

\* A cache that answers "rejected" for every key.
alwaysRejected(t, key) == "rejected"

\* task.destructiveIntentApprovals is a Map from key to boolean.
\* The answer is "approved", "rejected" or None (undefined).
getDestructiveIntentApproval(t, key) ==
    IF key \in DOMAIN t.destructiveIntentApprovals
    THEN Word(t.destructiveIntentApprovals[key]) ELSE None

setDestructiveIntentApproval(t, key, approved) ==
    [t EXCEPT !.destructiveIntentApprovals =
        [k \in (DOMAIN @) \cup {key} |-> IF k = key THEN approved ELSE @[k]]]

\* getDestructiveOperationInfo: apply_patch only; every line is trimmed before
\* the "*** Delete File: " and "*** Move to: " prefixes are tested.
getDestructiveOperationInfo(toolUse) ==
    /\ toolUse.name = "apply_patch"
    /\ toolUse.patch # <<>>
    /\ \E i \in 1..Len(toolUse.patch) :
           /\ toolUse.patch[i].marker \in {"delete", "move"}
           /\ toolUse.patch[i].path # <<>>

\* getMutationMetadata: fromNative.x ?? fromParams.x
getMutationMetadata(toolUse) ==
    [intent_id      |-> IF toolUse.nIntent # None THEN toolUse.nIntent ELSE toolUse.pIntent,
     mutation_class |-> IF toolUse.nClass # None THEN toolUse.nClass ELSE toolUse.pClass]

\* A gate that leaves the arguments as they came.
keepArguments(toolUse, intent_id, mutation_class) == toolUse

\* applyMutationMetadata: fills what is missing, in nativeArgs and in params
\* separately.
applyMutationMetadata(toolUse, intent_id, mutation_class) ==
    [toolUse EXCEPT !.nIntent = IF @ = None THEN intent_id ELSE @,
                    !.nClass  = IF @ = None THEN mutation_class ELSE @,
                    !.pIntent = IF @ = None THEN intent_id ELSE @,
                    !.pClass  = IF @ = None THEN mutation_class ELSE @]

AllowedMutationClasses == {"AST_REFACTOR", "INTENT_EVOLUTION"}

\* findMatchingApproval over the parsed lines of intent-decisions.jsonl, with the
\* predicate of line 120.
findMatchingApproval(decisions, command, intent_id) ==
    \E i \in 1..Len(decisions) :
        /\ decisions[i].decision = "approved"
        /\ decisions[i].tool = "execute_command"
        /\ decisions[i].command = command
        /\ decisions[i].intent_id = intent_id


\* A command branch that lets every command through unasked.
AllowCommand(c, persisted) == Return(c, Proceed)

\* Lines 78-164: the execute_command branch.  persisted is what
\* loadPersistedDecisions reads from intent-decisions.jsonl.
CommandBranch(c, persisted) ==
    LET activeIntent == c.task.activeIntent
        command == unescapeHtmlEntities(c.toolUse.command)
        classification == classifyCommandWithDebug(unwrapShellCommand(command))
        record(decision, reason) ==
            Decision(activeIntent.id, c.toolUse.name, decision, reason, <<>>, command)
        markCommandApproved(cc) == [cc EXCEPT !.task.approvedCommands = @ \cup {command}]
    IN IF Trim(command) = <<>> THEN Return(c, Proceed)
       ELSE IF classification = "safe"
       THEN Return(markCommandApproved(recordDecision(c, record("approved", "safe_command"))),
                   Proceed)
       ELSE IF findMatchingApproval(persisted, command, activeIntent.id)
       THEN Return(markCommandApproved(recordDecision(c, record("approved", "reused_approval"))),
                   Proceed)
       ELSE LET c1 == promptApproval(c, "destructive_command", command)
                c2 == recordDecision(c1, record(Word(Approved(c1)), "destructive_command"))
            IN IF ~Approved(c1)
               THEN Return(c2, Veto(HookError("command_not_authorized", "CMD-001", <<>>, None)))
               ELSE Return(markCommandApproved(c2), Proceed)

\* Lines 166-213: a tool that is not destructive; only the user-intent
\* preflight applies.
NonDestructiveBranch(c, cls, targetPaths) ==
    LET activeIntent == c.task.activeIntent
        approvalKey == getDestructiveApprovalKey(cls, c.toolUse, targetPaths)
        prior == IF approvalKey # NoKey THEN getDestructiveIntentApproval(c.task, approvalKey)
                 ELSE None
        denied == Veto(HookError("destructive_intent_denied", "REQ-009", <<>>, None))
    IN IF cls.verdict # "destructive" THEN Return(c, Proceed)
       ELSE IF prior = "approved" THEN Return(c, Proceed)
       ELSE IF prior = "rejected" THEN Return(c, denied)
       ELSE LET c1 == promptApproval(c, "destructive_intent_preflight", <<>>)
                approved == Approved(c1)
                c2 == IF approvalKey # NoKey
                      THEN [c1 EXCEPT !.task = setDestructiveIntentApproval(@, approvalKey, approved)]
                      ELSE c1
                c3 == recordDecision(c2, Decision(activeIntent.id, c.toolUse.name, Word(approved),
                                                  "destructive_intent_preflight", targetPaths, <<>>))
            IN IF ~approved THEN Return(c3, denied) ELSE Return(c3, Proceed)

\* Lines 217-250: the stale-block check of a mutating tool.  A denial sets
\* task.didRejectTool and leaves the blocks; an approval clears the block of
\* every blocked target path.  No decision is recorded for this prompt.
RECURSIVE ClearAll(_, _)
ClearAll(t, paths) ==
    IF paths = <<>> THEN t ELSE ClearAll(clearStaleFile(t, Head(paths)), Tail(paths))

RECURSIVE FilterBlocked(_, _)
FilterBlocked(t, paths) ==
    IF paths = <<>> THEN <<>>
    ELSE (IF getStaleFileBlock(t, Head(paths)) THEN <<Head(paths)>> ELSE <<>>)
         \o FilterBlocked(t, Tail(paths))

StaleBlockCheck(c, targetPaths) ==
    LET blocked == FilterBlocked(c.task, targetPaths)
    IN IF blocked = <<>> THEN c
       ELSE LET c1 == promptApproval(c, "stale_lock", blocked[1])
            IN IF ~Approved(c1)
               THEN Return([c1 EXCEPT !.task.didRejectTool = TRUE],
                           Veto(HookError("stale_lock", "REQ-007", blocked[1], None)))
               ELSE [c1 EXCEPT !.task = ClearAll(@, blocked)]

\* Lines 252-286: mutation metadata.
MetadataCheck(c) ==
    LET activeIntent == c.task.activeIntent
        metadata == getMutationMetadata(c.toolUse)
        autoIntentId == IF metadata.intent_id # None THEN metadata.intent_id ELSE activeIntent.id
        autoMutationClass == IF metadata.mutation_class # None THEN metadata.mutation_class
                             ELSE "INTENT_EVOLUTION"
        c1 == IF metadata.intent_id = None \/ metadata.mutation_class = None
              THEN [c EXCEPT !.toolUse = applyMutationMetadata(@, autoIntentId, autoMutationClass)]
              ELSE c
    IN IF c.done THEN c
       ELSE IF autoIntentId # activeIntent.id
       THEN Return(c1, Veto(HookError("intent_mismatch", "REQ-004", <<>>, autoIntentId)))
       ELSE IF autoMutationClass \notin AllowedMutationClasses
       THEN Return(c1, Veto(HookError("invalid_metadata", "REQ-005", <<>>, autoMutationClass)))
       ELSE c1

\* Lines 385-405: one prompt per scope violation, in order; the first denial
\* vetoes with the denied path as filename.
RECURSIVE ScopeViolationLoop(_, _)
ScopeViolationLoop(c, scopeViolations) ==
    IF scopeViolations = <<>> THEN Return(c, Proceed)
    ELSE LET p == Head(scopeViolations)
             c1 == promptApproval(c, "scope_violation", p)
             c2 == recordDecision(c1, Decision(c.task.activeIntent.id, c.toolUse.name,
                                               Word(Approved(c1)), "scope_violation", <<p>>, <<>>))
         IN IF ~Approved(c1)
            THEN Return(c2, Veto(HookError("scope_violation", "REQ-001", p, None)))
            ELSE ScopeViolationLoop(c2, Tail(scopeViolations))

RECURSIVE ScopeViolations(_, _)
\* Lines 317-332: the target paths no owned-scope entry matches.
ScopeViolations(ownedScope, targetPaths) ==
    IF targetPaths = <<>> THEN <<>>
    ELSE (IF \E k \in 1..Len(ownedScope) : matchesScope(ownedScope[k], Head(targetPaths))
          THEN <<>> ELSE <<Head(targetPaths)>>)
         \o ScopeViolations(ownedScope, Tail(targetPaths))


\* Lines 289-407: what a mutating call goes through after the metadata check.
ScopeAndDestructiveCheck(c, cls, targetPaths) ==
    LET activeIntent == c.task.activeIntent
        tool == c.toolUse.name
        requiresDestructivePrompt ==
            isMutatingTool(tool)
            /\ (getDestructiveOperationInfo(c.toolUse) \/ cls.verdict = "destructive")
        scopeViolations == ScopeViolations(getOwnedScopeFromTask(activeIntent), targetPaths)
        approvalKey == getDestructiveApprovalKey(cls, c.toolUse, targetPaths)
        prior == IF approvalKey # NoKey THEN getDestructiveIntentApproval(c.task, approvalKey)
                 ELSE None
        denied == Veto(HookError("destructive_operation_denied", "REQ-008", <<>>, None))
    IN IF c.done THEN c
       ELSE IF targetPaths = <<>>
       THEN LET c1 == promptApproval(c, "unknown_targets", <<>>)
                c2 == recordDecision(c1, Decision(activeIntent.id, tool, Word(Approved(c1)),
                                                  "unknown_targets", <<>>, <<>>))
            IN IF ~Approved(c1)
               THEN Return(c2, Veto(HookError("unknown_targets", "REQ-002", <<>>, None)))
               ELSE Return(c2, Proceed)
       ELSE IF requiresDestructivePrompt /\ scopeViolations = <<>>
       THEN IF prior = "approved" THEN Return(c, Proceed)
            ELSE IF prior = "rejected" THEN Return(c, denied)
            ELSE LET c1 == promptApproval(c, "destructive_operation", <<>>)
                     approved == Approved(c1)
                     c2 == IF approvalKey # NoKey
                           THEN [c1 EXCEPT !.task =
                                    setDestructiveIntentApproval(@, approvalKey, approved)]
                           ELSE c1
                     c3 == recordDecision(c2, Decision(activeIntent.id, tool, Word(approved),
                                                       "destructive_intent", targetPaths, <<>>))
                 IN IF ~approved THEN Return(c3, denied)
                    ELSE ScopeViolationLoop(c3, scopeViolations)
       ELSE ScopeViolationLoop(c, scopeViolations)

\* A gate that vetoes every call.
denyAll(t, toolUse, ignoreLines, persisted, answers, verdict) ==
    [task |-> t, toolUse |-> toolUse, answers |-> answers, prompts |-> <<>>,
     recorded |-> <<>>, res |-> Veto(NoActiveIntentMessage), done |-> TRUE]

\* ScopeEnforcementHook.execute (lines 30-408).
\*   ignoreLines  the lines of .orchestration/.intentignore
\*   persisted    the parsed lines of .orchestration/intent-decisions.jsonl
\*   answers      the user's answers to the prompts of this call
\*   verdict      what classifyUserIntent answers if it is asked
execute(t, toolUse, ignoreLines, persisted, answers, verdict) ==
    LET c0 == [task |-> t, toolUse |-> toolUse, answers |-> answers, prompts |-> <<>>,
               recorded |-> <<>>, res |-> Proceed, done |-> FALSE]
        isSelectActiveIntent == toolUse.name = "select_active_intent"
        isExecuteCommand == toolUse.name = "execute_command"
        isDestructiveToolUse == isDestructiveTool(toolUse.name)
        requiresIntent == isExecuteCommand \/ isDestructiveToolUse
        activeIntent == t.activeIntent
        targetPaths == extractTargetPaths(toolUse)
        classified == IF activeIntent.id # None /\ ~isSelectActiveIntent /\ ~isExecuteCommand
                      THEN getUserIntentClassification(c0, verdict)
                      ELSE [c |-> c0, cls |-> NoClassification]
    IN IF toolUse.partial THEN Return(c0, Proceed)
       ELSE IF requiresIntent /\ activeIntent.id = None THEN Return(c0, Veto(NoActiveIntentMessage))
       ELSE IF activeIntent.id # None /\ activeIntent.id \in IgnoredIntentIds(ignoreLines)
       THEN Return(c0, Proceed)
       ELSE IF isExecuteCommand THEN CommandBranch(classified.c, persisted)
       ELSE IF ~isDestructiveToolUse
       THEN NonDestructiveBranch(classified.c, classified.cls, targetPaths)
       ELSE LET c1 == IF isMutatingTool(toolUse.name)
                      THEN MetadataCheck(StaleBlockCheck(classified.c, targetPaths))
                      ELSE classified.c
            IN ScopeAndDestructiveCheck(c1, classified.cls, targetPaths)

\* ------------------------------------------------------------------------
\* The session: tool calls going through the pre-hooks
\* ------------------------------------------------------------------------
MaxPrompts == 3
MaxDecisionLines == 2
MaxPending == 1

EmptyMap == [k \in {} |-> TRUE]

\* The hook state of a Task at construction.
\* task.lastVerificationFailure when it is not set.
NoFailure ==
    [type |-> None, intent_id |-> "", tool |-> None, path |-> <<>>,
     expected_hash |-> <<>>, actual_hash |-> <<>>, timestamp |-> 0]

InitTask ==
    [activeIntent |-> NoIntent,
     staleFileBlocks |-> {},
     destructiveIntentApprovals |-> EmptyMap,
     lastUserMessageText |-> None,
     lastUserIntentClassification |-> NoClassification,
     didRejectTool |-> FALSE,
     approvedCommands |-> {},
     lastVerificationFailure |-> NoFailure,
     traceSnapshots |-> EmptyMap]

ToolUse(name) ==
    [name |-> name, partial |-> FALSE, path |-> <<>>, nPath |-> <<>>, patch |-> <<>>,
     command |-> <<>>, pIntent |-> None, pClass |-> None, nIntent |-> None, nClass |-> None]

\* hist.selectedWith before any select: the files the last successful
\* select read.
NoSelection == [sharedKnowledge |-> <<>>, intents |-> IntentsFile("missing", <<>>)]

NoCall ==
    [toolUse |-> ToolUse(None), args |-> ToolUse(None), before |-> InitTask,
     ignoreLines |-> <<>>, persisted |-> <<>>, userApprovedBefore |-> {},
     prompts |-> <<>>, recorded |-> <<>>, res |-> Proceed, handled |-> FALSE,
     handlerError |-> None,
     wrote |-> FALSE, intents |-> IntentsFile("missing", <<>>), gateRes |-> Proceed,
     sharedKnowledge |-> <<>>, traceLines |-> <<>>, selectedBefore |-> NoSelection]

\* HookEngine.executePreHooks for the two pre-hooks modelled here: the gate runs
\* for every tool, the context injector only for select_active_intent, and a
\* veto stops the chain.
executePreHooks(t, toolUse, ignoreLines, persisted, sharedKnowledge, intents, traceLines, answers, verdict) ==
    LET g == execute(t, toolUse, ignoreLines, persisted, answers, verdict)
        inj == ContextInjectorHook(intents, g.task, g.toolUse, sharedKnowledge, traceLines)
    IN IF toolUse.name = "select_active_intent" /\ g.res.shouldProceed
       THEN [g EXCEPT !.task = inj.task,
                      !.res = IF inj.shouldProceed THEN Proceed
                              ELSE Veto(HookError(inj.error_type, None, <<>>, None))]
       ELSE g

\* What the driver and the session keep of a call once its pre-hooks returned g
\* and the gate alone returned gateRes.  Every decision recorded
\* starts an fs.appendFile that is not awaited; on a file that cannot be written
\* the promise rejects and the rejection is swallowed.
AfterPreHooks(toolUse, g, gateRes) ==
    /\ task' = g.task
    /\ last' = [toolUse |-> g.toolUse, args |-> toolUse, before |-> task,
                ignoreLines |-> ignoreFile, persisted |-> decisionsFile,
                userApprovedBefore |-> hist.userApproved,
                prompts |-> g.prompts, recorded |-> g.recorded, res |-> g.res,
                handled |-> FALSE, handlerError |-> None, wrote |-> FALSE,
                intents |-> intentsFile,
                sharedKnowledge |-> agentMd, traceLines |-> traceFile,
                selectedBefore |-> hist.selectedWith,
                gateRes |-> gateRes]
    /\ pendingAppends' = IF decisionsWritable THEN pendingAppends \cup Range(g.recorded)
                         ELSE pendingAppends
    /\ hist' = [selected |-> hist.selected
                             \/ (toolUse.name = "select_active_intent" /\ g.res.shouldProceed),
                userApproved |-> hist.userApproved \cup
                    {<<task.activeIntent.id, g.prompts[i].subject>> :
                        i \in {j \in 1..Len(g.prompts) :
                                  /\ g.prompts[j].kind = "destructive_command"
                                  /\ g.prompts[j].approved}},
                selectedWith |->
                    IF toolUse.name = "select_active_intent" /\ g.res.shouldProceed
                    THEN [sharedKnowledge |-> agentMd, intents |-> intentsFile]
                    ELSE hist.selectedWith,
                approvedFor |-> hist.approvedFor \cup
                    {<<toolUse.name, extractTargetPaths(toolUse)>> :
                        i \in {j \in 1..Len(g.prompts) :
                                  /\ g.prompts[j].kind \in {"destructive_intent_preflight",
                                                            "destructive_operation"}
                                  /\ g.prompts[j].approved}}]

\* A tool call arrives and the pre-hooks run on it.
GateCall(toolUse, answers, verdict) ==
    /\ phase = "idle"
    /\ Cardinality(pendingAppends) < MaxPending
    /\ AfterPreHooks(toolUse,
                     executePreHooks(task, toolUse, ignoreFile, decisionsFile, agentMd,
                                     intentsFile, traceFile, answers, verdict),
                     execute(task, toolUse, ignoreFile, decisionsFile, answers, verdict).res)
    /\ phase' = "gated"
    /\ UNCHANGED <<ignoreFile, agentMd, decisionsFile, decisionsWritable>>
    /\ UNCHANGED <<patchVars, appendVars, engineVars, traceVars, classVars, intentsFile>>

\* active_intents.yaml is edited, replaced, removed or made unreadable.
EditIntents(file) ==
    /\ intentsFile # file
    /\ intentsFile' = file
    /\ UNCHANGED <<task, ignoreFile, agentMd, decisionsFile, decisionsWritable, pendingAppends,
                   hist, last, phase>>
    /\ UNCHANGED <<patchVars, appendVars, engineVars, traceVars, classVars>>

\* The driver invokes the tool handler of a call the pre-hooks let through;
\* the handler of a complete mutating call writes its targets and, as
\* ApplyPatchTool on its success path, leaves the stale-block store alone.
InvokeHandler ==
    /\ phase = "gated"
    /\ last.res.shouldProceed
    /\ last' = [last EXCEPT !.handled = TRUE,
                            !.handlerError =
                                IF last.toolUse.name = "select_active_intent" /\ ~last.toolUse.partial
                                THEN SelectActiveIntentTool(
                                         intentsFile,
                                         IF last.toolUse.nIntent # None THEN last.toolUse.nIntent
                                         ELSE last.toolUse.pIntent)
                                ELSE None,
                            !.wrote = isMutatingTool(last.toolUse.name) /\ ~last.toolUse.partial]
    /\ phase' = "handled"
    /\ UNCHANGED <<task, ignoreFile, agentMd, decisionsFile, decisionsWritable, pendingAppends, hist>>
    /\ UNCHANGED <<patchVars, appendVars, engineVars, traceVars, classVars, intentsFile>>

\* The handler of a mutating tool finds a target changed on disk:
\* checkOptimisticLock marks the path stale.
HandlerFindsStale(p) ==
    /\ phase = "gated"
    /\ last.res.shouldProceed
    /\ ~last.toolUse.partial
    /\ isMutatingTool(last.toolUse.name)
    /\ p \in Range(extractTargetPaths(last.toolUse))
    /\ task' = markStaleFile(task, p)
    /\ last' = [last EXCEPT !.handled = TRUE]
    /\ phase' = "handled"
    /\ UNCHANGED <<ignoreFile, agentMd, decisionsFile, decisionsWritable, pendingAppends, hist>>
    /\ UNCHANGED <<patchVars, appendVars, engineVars, traceVars, classVars, intentsFile>>

\* The call is over (vetoed, or handled): the driver is ready for the next one.
Finish ==
    /\ \/ phase = "handled"
       \/ phase = "gated" /\ ~last.res.shouldProceed
    /\ phase' = "idle"
    /\ last' = NoCall
    /\ UNCHANGED <<task, ignoreFile, agentMd, decisionsFile, decisionsWritable, pendingAppends, hist>>
    /\ UNCHANGED <<patchVars, appendVars, engineVars, traceVars, classVars, intentsFile>>

\* A user message arrives: the Task keeps its text.
UserMessage(text) ==
    /\ phase = "idle"
    /\ task.lastUserMessageText # text
    /\ task' = [task EXCEPT !.lastUserMessageText = text]
    /\ UNCHANGED <<ignoreFile, agentMd, decisionsFile, decisionsWritable, pendingAppends, last, phase, hist>>
    /\ UNCHANGED <<patchVars, appendVars, engineVars, traceVars, classVars, intentsFile>>

\* AGENT.md is rewritten (lessons appended, or edited by hand).
EditAgentMd(content) ==
    /\ phase = "idle"
    /\ agentMd # content
    /\ agentMd' = content
    /\ UNCHANGED <<task, ignoreFile, decisionsFile, decisionsWritable, pendingAppends, last, phase, hist>>
    /\ UNCHANGED <<patchVars, appendVars, engineVars, traceVars, classVars, intentsFile>>

\* An fs.appendFile started by recordDecision completes: its line is in the file.
AppendLands(line) ==
    /\ line \in pendingAppends
    /\ Len(decisionsFile) < MaxDecisionLines
    /\ decisionsFile' = Append(decisionsFile, line)
    /\ pendingAppends' = pendingAppends \ {line}
    /\ UNCHANGED <<task, ignoreFile, agentMd, decisionsWritable, last, phase, hist>>
    /\ UNCHANGED <<patchVars, appendVars, engineVars, traceVars, classVars, intentsFile>>

\* The decisions file becomes writable or read-only (permissions, disk full).
SetWritable(b) ==
    /\ phase = "idle"
    /\ decisionsWritable # b
    /\ decisionsWritable' = b
    /\ UNCHANGED <<task, ignoreFile, agentMd, decisionsFile, pendingAppends, last, phase, hist>>
    /\ UNCHANGED <<patchVars, appendVars, engineVars, traceVars, classVars, intentsFile>>

\* The session ends and a new one starts on the same working directory.
NewSession ==
    /\ phase = "idle"
    /\ task # InitTask
    /\ task' = InitTask
    /\ hist' = [hist EXCEPT !.selected = FALSE, !.selectedWith = NoSelection, !.approvedFor = {}]
    /\ UNCHANGED <<ignoreFile, agentMd, decisionsFile, decisionsWritable, pendingAppends, last, phase>>
    /\ UNCHANGED <<patchVars, appendVars, engineVars, traceVars, classVars, intentsFile>>

\* ------------------------------------------------------------------------
\* The calls, answers and files the model explores
\* ------------------------------------------------------------------------
PA == <<"s", "a">>
PDotA == <<".", "s", "a">>
PB == <<"o", "b">>

Line(marker, path) == [indent |-> FALSE, marker |-> marker, path |-> path]

Patches ==
    { <<Line("update", PA)>>,
      <<Line("delete", PA)>>,
      <<Line("delete", PB)>>,
      <<[indent |-> TRUE, marker |-> "delete", path |-> PA]>> }

Messages == {"m1"}

Verdicts == {"safe", "destructive"}

\* The user approves the first k prompts of a call and rejects the next one.
AnswerSeqs == {[i \in 1..k |-> TRUE] : k \in 0..MaxPrompts}

FileToolUses ==
    {[ToolUse("write_to_file") EXCEPT !.path = p, !.partial = b] :
        p \in {<<>>, PA, PDotA, PB}, b \in BOOLEAN}
    \cup {[ToolUse("write_to_file") EXCEPT !.path = PA, !.pIntent = i, !.pClass = m] :
             i \in {None, "i1", "i2"}, m \in {None, "AST_REFACTOR", "FREEFORM"}}
    \cup {[ToolUse("write_to_file") EXCEPT !.path = PA, !.pIntent = "i1", !.nIntent = i,
                                           !.pClass = "AST_REFACTOR", !.nClass = m] :
             i \in {None, "i2"}, m \in {None, "FREEFORM"}}
    \cup {[ToolUse("write_to_file") EXCEPT !.path = PA, !.nPath = PB]}
    \cup {[ToolUse("apply_patch") EXCEPT !.patch = d] : d \in Patches}
    \cup {[ToolUse("read_file") EXCEPT !.path = PA]}
    \cup {[ToolUse("execute_command") EXCEPT !.command = <<"_">>, !.partial = b] : b \in BOOLEAN}
    \cup {[ToolUse("select_active_intent") EXCEPT !.nIntent = i] : i \in {None, "i1", "i2", "i3"}}

AgentMdContents == {<<>>, <<Tok("text", <<"lesson">>), Tok("path", <<"o">>)>>}

\* .orchestration/.intentignore of the modelled workspace: "# i1" and "i2".
IntentIgnore == <<[text |-> "i1", comment |-> TRUE], [text |-> "i2", comment |-> FALSE]>>

CmdLs == <<"ls">>
CmdRm == <<"rm", "_", "x">>
CmdBlank == <<"_">>

CmdPwshLs == <<"pwsh", "_", "-command", "_", "\"", "ls", "\"">>
CmdCatLt == <<"cat", "_", "&lt;", "_", "x">>

Commands == {CmdLs, CmdRm, CmdBlank, CmdPwshLs, CmdCatLt}

CommandToolUses ==
    {[ToolUse("execute_command") EXCEPT !.command = cmd] : cmd \in Commands}
    \cup {[ToolUse("execute_command") EXCEPT !.command = CmdRm, !.partial = TRUE]}
    \cup {[ToolUse("select_active_intent") EXCEPT !.nIntent = i] : i \in {"i1", "i2"}}
    \cup {[ToolUse("write_to_file") EXCEPT !.path = PA]}

\* ------------------------------------------------------------------------
\* The workspace file, its snapshot and the optimistic lock
\* (src/hooks/TraceSnapshotHook.ts, src/hooks/optimisticLock.ts,
\*  src/hooks/traceUtils.ts)
\* A file's content is a sequence of byte tokens: "x00" is a NUL byte and
\* "xE9" a byte that is no valid UTF-8 sequence (e-acute in Latin-1). A
\* string is a sequence of character tokens; "uFFFD" is the replacement
\* character, whose UTF-8 encoding is the three bytes "xEFBFBD".
\* ------------------------------------------------------------------------
MaxWorkspaceWrites == 2
MaxFailures == 2

FileBytes == { <<"a">>, <<"b">>, <<"a", "xE9">>, <<"a", "x00">> }

NoFile == [exists |-> FALSE, bytes |-> <<>>]

File(bytes) == [exists |-> TRUE, bytes |-> bytes]

WorkspaceFiles == {NoFile} \cup {File(b) : b \in FileBytes}

CallIds == {"c1", "c2"}

\* isBinaryBuffer: the buffer holds a NUL byte.
isBinaryBuffer(buffer) == \E i \in 1..Len(buffer) : buffer[i] = "x00"

\* buffer.toString("utf8"): a byte that is not valid UTF-8 decodes to U+FFFD.
toStringUtf8(buffer) ==
    [i \in 1..Len(buffer) |-> IF buffer[i] = "xE9" THEN "uFFFD" ELSE buffer[i]]

\* The bytes createHash(...).update(text) hashes: the UTF-8 encoding of text.
utf8Bytes(text) ==
    [i \in 1..Len(text) |-> IF text[i] = "uFFFD" THEN "xEFBFBD" ELSE text[i]]

\* hashContent(content: Buffer)
hashBuffer(buffer) == <<"sha256", buffer>>

\* hashContent(content: string)
hashString(text) == hashBuffer(utf8Bytes(text))

\* A SnapshotEntry; hasBefore is `before !== null`.
SnapshotEntry(before, hasBefore, existed, binary) ==
    [before |-> before, hasBefore |-> hasBefore, existed |-> existed, binary |-> binary]

\* The entry TraceSnapshotHook.execute stores for a target path.
snapshotOf(file) ==
    IF ~file.exists THEN SnapshotEntry(<<>>, FALSE, FALSE, FALSE)
    ELSE IF isBinaryBuffer(file.bytes) THEN SnapshotEntry(<<>>, FALSE, TRUE, TRUE)
    ELSE SnapshotEntry(toStringUtf8(file.bytes), TRUE, TRUE, FALSE)

\* TraceSnapshotHook.execute for a call with one target path:
\* store.set(traceKey, snapshot).
TraceSnapshotHook(t, traceKey, relPath, file) ==
    [t EXCEPT !.traceSnapshots =
        [k \in DOMAIN @ \cup {traceKey} |->
            IF k = traceKey THEN [p \in {relPath} |-> snapshotOf(file)] ELSE @[k]]]

\* getSnapshotEntry: the keys under which the entry of relPath is looked up.
snapshotCandidates(relPath) ==
    {relPath, normalizeStaleKey(relPath), Resolve(relPath), Resolve(normalizeStaleKey(relPath))}

hasSnapshotEntry(t, toolCallId, relPath) ==
    /\ toolCallId \in DOMAIN t.traceSnapshots
    /\ snapshotCandidates(relPath) \cap DOMAIN t.traceSnapshots[toolCallId] # {}

getSnapshotEntry(snapshotMap, relPath) ==
    snapshotMap[CHOOSE c \in snapshotCandidates(relPath) : c \in DOMAIN snapshotMap]

VerificationFailure(intentId, tool, relPath, expectedHash, actualHash, now) ==
    [type |-> "stale_file", intent_id |-> intentId, tool |-> tool, path |-> relPath,
     expected_hash |-> expectedHash, actual_hash |-> actualHash, timestamp |-> now]

\* A check that reports the stale file without recording it.
reportOnly(t, failure) == t

\* lastVerificationFailure = {...}; markStaleFile(task, relPath, tool)
recordStale(t, failure) ==
    markStaleFile([t EXCEPT !.lastVerificationFailure = failure], failure.path)

\* checkOptimisticLock(task, toolCallId, relPath, tool) with the target file
\* as fs.readFile finds it: the error returned (NoResult for null) and the
\* task afterwards. An undefined toolCallId is None.
checkOptimisticLockOnTask(t, toolCallId, relPath, tool, file, now) ==
    LET unchanged == [result |-> NoResult, task |-> t]
    IN IF toolCallId = None \/ ~hasSnapshotEntry(t, toolCallId, relPath) THEN unchanged
       ELSE LET snap == getSnapshotEntry(t.traceSnapshots[toolCallId], relPath)
                actualExists == file.exists
                actualHash == IF actualExists THEN hashBuffer(file.bytes) ELSE <<>>
                expectedExists == snap.existed
                expectedHash == IF expectedExists /\ snap.hasBefore
                                THEN hashString(snap.before) ELSE <<>>
                stale == \/ expectedExists /\ ~actualExists
                         \/ ~expectedExists /\ actualExists
                         \/ expectedExists /\ actualExists /\ expectedHash # actualHash
                intentId == IF t.activeIntent.id = None THEN "" ELSE t.activeIntent.id
            IN IF snap.binary THEN unchanged
               ELSE IF actualExists /\ isBinaryBuffer(file.bytes) THEN unchanged
               ELSE IF ~stale THEN unchanged
               ELSE [result |-> StaleFileError(expectedHash, actualHash),
                     task |-> recordStale(t, VerificationFailure(intentId, tool, relPath,
                                                                  expectedHash, actualHash, now))]

NoCheck ==
    [called |-> FALSE, toolCallId |-> None, path |-> <<>>, hadSnapshot |-> FALSE,
     snapFile |-> NoFile, file |-> NoFile, result |-> NoResult,
     before |-> InitTask, after |-> InitTask]

NoLesson ==
    [calls |-> 0, failure |-> NoFailure, appended |-> FALSE, before |-> <<>>, after |-> <<>>,
     success |-> TRUE, taskAfter |-> InitTask]

NoPending == [parses |-> FALSE, id |-> None, intent_id |-> None, files |-> <<>>]

\* No TraceWriterHook call has run since the last snapshot was taken.
NoWriter == [key |-> None, returned |-> FALSE]

TwIdle ==
    [check |-> NoCheck,       \* history: the last checkOptimisticLock call
     snapFiles |-> EmptyMap,  \* history: the file as it was when each snapshot was taken
     writes |-> 0,            \* how many times the file was written
     clock |-> 0,             \* new Date(): the failures recorded so far
     lesson |-> NoLesson,     \* history: the last LessonsLearnedHook call
     pending |-> NoPending,   \* the entry TraceWriterHook is about to append
     writer |-> NoWriter,     \* history: the call TraceWriterHook last ran for
     diskAtAppend |-> <<>>]   \* history: the file when each entry was appended

TraceIdle ==
    /\ wsFile = NoFile
    /\ traceFile = <<>>
    /\ tw = TwIdle

\* What the hooks of this section leave alone in the session.
sessionFiles == <<ignoreFile, decisionsFile, pendingAppends, last, phase, decisionsWritable,
                  hist, intentsFile>>

\* The pre-hook of a file tool call snapshots the target.
SnapshotTarget(traceKey, relPath) ==
    /\ tw.pending = NoPending
    /\ task' = TraceSnapshotHook(task, traceKey, relPath, wsFile)
    /\ tw' = [tw EXCEPT !.snapFiles =
                 [k \in DOMAIN @ \cup {traceKey} |-> IF k = traceKey THEN wsFile ELSE @[k]],
                        !.writer = NoWriter]
    /\ UNCHANGED <<wsFile, traceFile, agentMd, sessionFiles, patchVars, appendVars, engineVars, classVars>>

\* The handler, the user or another process writes or deletes the file.
WorkspaceWrite(file) ==
    /\ tw.writes < MaxWorkspaceWrites
    /\ file # wsFile
    /\ wsFile' = file
    /\ tw' = [tw EXCEPT !.writes = @ + 1]
    /\ UNCHANGED <<task, traceFile, agentMd, sessionFiles, patchVars, appendVars, engineVars, classVars>>

\* A handler calls checkOptimisticLock for its target.
CheckLock(toolCallId, relPath) ==
    LET r == checkOptimisticLockOnTask(task, toolCallId, relPath, "apply_patch", wsFile,
                                       tw.clock + 1)
        had == hasSnapshotEntry(task, toolCallId, relPath)
    IN /\ tw.clock < MaxFailures
       /\ task' = r.task
       /\ tw' = [tw EXCEPT !.clock = IF r.result = NoResult THEN @ ELSE @ + 1,
                           !.check =
                    [called |-> TRUE, toolCallId |-> toolCallId, path |-> relPath,
                     hadSnapshot |-> had,
                     snapFile |-> IF had THEN tw.snapFiles[toolCallId] ELSE NoFile,
                     file |-> wsFile, result |-> r.result,
                     before |-> task, after |-> r.task]]
       /\ UNCHANGED <<wsFile, traceFile, agentMd, sessionFiles, patchVars, appendVars, engineVars, classVars>>

\* ------------------------------------------------------------------------
\* The post-hooks: LessonsLearnedHook and TraceWriterHook
\* (src/hooks/LessonsLearnedHook.ts, src/hooks/TraceWriterHook.ts)
\* ------------------------------------------------------------------------
MaxLessonCalls == 2
MaxTraceLines == 2

\* The Markdown block of a failure; the timestamp tells failures apart.
LessonBlock(failure) ==
    [tag |-> "lesson", val |-> failure.path, timestamp |-> failure.timestamp]

\* A hook that appends the lesson and keeps the failure on the task.
lessonsKeptFailure(t, md, appended) ==
    IF t.lastVerificationFailure = NoFailure
    THEN [task |-> t, agentMd |-> md, success |-> TRUE]
    ELSE [task |-> t,
          agentMd |-> IF appended THEN Append(md, LessonBlock(t.lastVerificationFailure)) ELSE md,
          success |-> appended]

\* LessonsLearnedHook.execute; appended says appendWithLock wrote the entry,
\* otherwise it threw after maxAttempts (nothing written).
LessonsLearnedHook(t, md, appended) ==
    IF t.lastVerificationFailure = NoFailure
    THEN [task |-> t, agentMd |-> md, success |-> TRUE]
    ELSE [task |-> [t EXCEPT !.lastVerificationFailure = NoFailure],
          agentMd |-> IF appended THEN Append(md, LessonBlock(t.lastVerificationFailure)) ELSE md,
          success |-> appended]

\* The post-hook runs after a tool call.
LessonsLearned(appended) ==
    LET r == LessonsLearnedHook(task, agentMd, appended)
    IN /\ tw.lesson.calls < MaxLessonCalls
       /\ task' = r.task
       /\ agentMd' = r.agentMd
       /\ tw' = [tw EXCEPT !.lesson =
                    [calls |-> @.calls + 1, failure |-> task.lastVerificationFailure,
                     appended |-> appended, before |-> agentMd, after |-> r.agentMd,
                     success |-> r.success, taskAfter |-> r.task]]
       /\ UNCHANGED <<wsFile, traceFile, sessionFiles, patchVars, appendVars, engineVars, classVars>>

\* One element of entry.files; a null content_hash is <<>>, related is the
\* value of the "specification" link (None when related is []).
FileRecord(relPath, contentHash, intentId) ==
    [relative_path |-> Resolve(relPath), content_hash |-> contentHash, related |-> intentId]

\* The file record TraceWriterHook builds from what fs.readFile returns.
traceFileRecord(relPath, file, intentId) ==
    FileRecord(relPath, IF file.exists THEN hashBuffer(file.bytes) ELSE <<>>, intentId)

\* A line of agent_trace.jsonl: JSON.stringify(entry); parses is what
\* JSON.parse makes of it.
TraceLine(id, intentId, files) ==
    [parses |-> TRUE, id |-> id, intent_id |-> intentId, files |-> files]

\* crypto.randomUUID(): the ids of the entries, in the order they are made.
TraceIds == <<"t1", "t2", "t3", "t4", "t5", "t6", "t7">>

\* TraceWriterHook.execute up to the entry: the snapshot of the call is taken
\* out of the store, every target is read and hashed.
TraceRead(traceKey, targets, intentId) ==
    /\ tw.pending = NoPending
    /\ Len(traceFile) < MaxTraceLines
    /\ task' = [task EXCEPT !.traceSnapshots = [k \in DOMAIN @ \ {traceKey} |-> @[k]]]
    /\ tw' = [tw EXCEPT !.pending =
                 TraceLine(TraceIds[Len(traceFile) + 1], intentId,
                           [i \in 1..Len(targets) |-> traceFileRecord(targets[i], wsFile, intentId)]),
                        !.snapFiles = [k \in DOMAIN @ \ {traceKey} |-> @[k]],
                        !.writer = [key |-> traceKey, returned |-> FALSE]]
    /\ UNCHANGED <<wsFile, traceFile, agentMd, sessionFiles, patchVars, appendVars, engineVars, classVars>>

\* TraceWriterHook.execute when fs.mkdir of the orchestration directory
\* throws: the catch returns success false before the snapshot store is read.
TraceMkdirFails(traceKey) ==
    /\ tw.pending = NoPending
    /\ tw.writer # [key |-> traceKey, returned |-> TRUE]
    /\ tw' = [tw EXCEPT !.writer = [key |-> traceKey, returned |-> TRUE]]
    /\ UNCHANGED <<task, wsFile, traceFile, agentMd, sessionFiles, patchVars, appendVars, engineVars, classVars>>

\* fs.appendFile(traceFile, JSON.stringify(entry) + "\n")
TraceAppend ==
    /\ tw.pending # NoPending
    /\ traceFile' = Append(traceFile, tw.pending)
    /\ tw' = [tw EXCEPT !.pending = NoPending, !.diskAtAppend = Append(@, wsFile),
                        !.writer.returned = TRUE]
    /\ UNCHANGED <<task, wsFile, agentMd, sessionFiles, patchVars, appendVars, engineVars, classVars>>

\* ------------------------------------------------------------------------
\* classifyCommand with a project policy  (src/hooks/CommandClassifier.ts)
\* A pattern of the policy file is [kind, word]: kind "head" stands for
\* ^word(\s|$), "any" for \bword(\s|$), "char" for a pattern matching the
\* character word anywhere, "invalid" for a string new RegExp rejects.
\* ------------------------------------------------------------------------
Pattern(kind, word) == [kind |-> kind, word |-> word]

\* toLowerCase on the tokens of a command.
toLowerCase(s) ==
    [i \in 1..Len(s) |-> IF s[i] = "LS" THEN "ls" ELSE IF s[i] = "RM" THEN "rm" ELSE s[i]]

\* new RegExp(p, "i").test(normalized); an invalid pattern throws and is skipped.
patternTest(p, normalized) ==
    CASE p.kind = "head" -> normalized # <<>> /\ Head(normalized) = p.word
      [] p.kind = "any" -> \E i \in 1..Len(normalized) : normalized[i] = p.word
      [] p.kind = "char" -> \E i \in 1..Len(normalized) : normalized[i] = p.word
      [] OTHER -> FALSE

\* loadCommandPolicy: null without a policy file, else {safe, destructive}.
NoPolicy == [present |-> FALSE, safe |-> <<>>, destructive |-> <<>>]

Policy(safe, destructive) == [present |-> TRUE, safe |-> safe, destructive |-> destructive]

builtinSafe(normalized) == normalized # <<>> /\ Head(normalized) \in SAFE_COMMAND_PATTERNS

builtinDestructive(normalized) ==
    \E i \in 1..Len(normalized) : normalized[i] \in DESTRUCTIVE_COMMAND_PATTERNS

\* A classifier that consults the built-in patterns before the project's.
classifyBuiltinFirst(command, policy) ==
    LET normalized == toLowerCase(Trim(command))
    IN IF normalized = <<>> THEN "destructive"
       ELSE IF \E i \in 1..Len(normalized) : normalized[i] \in {"<", ">"} THEN "destructive"
       ELSE IF builtinSafe(normalized) THEN "safe"
       ELSE IF builtinDestructive(normalized) THEN "destructive"
       ELSE IF policy.present /\ \E i \in 1..Len(policy.safe) : patternTest(policy.safe[i], normalized)
            THEN "safe"
       ELSE "destructive"

\* classifyCommand(command, cwd) with the policy loadCommandPolicy(cwd) returns.
classifyCommand(command, policy) ==
    LET normalized == toLowerCase(Trim(command))
    IN IF normalized = <<>> THEN "destructive"
       ELSE IF \E i \in 1..Len(normalized) : normalized[i] \in {"<", ">"} THEN "destructive"
       ELSE IF policy.present /\ \E i \in 1..Len(policy.safe) : patternTest(policy.safe[i], normalized)
            THEN "safe"
       ELSE IF policy.present
               /\ \E i \in 1..Len(policy.destructive) : patternTest(policy.destructive[i], normalized)
            THEN "destructive"
       ELSE IF builtinSafe(normalized) THEN "safe"
       ELSE IF builtinDestructive(normalized) THEN "destructive"
       ELSE "destructive"

PolicyCommands ==
    { <<>>, <<"_">>, <<"ls">>, <<"_", "LS", "_", "x">>, <<"rm", "_", "x">>, <<"RM", "_", "x">>,
      <<"ls", "_", ">", "_", "x">>, <<"cat", "_", "<", "_", "x">>, <<"cat", "_", "rm">>,
      <<"custom", "_", "x">>, <<"x", "_", "custom">>, <<"echo", "_", "mv">>,
      <<"ls", "_", "&&", "_", "rm", "_", "-rf", "_", "x">> }

Policies ==
    { NoPolicy,
      Policy(<<>>, <<>>),
      Policy(<<Pattern("head", "custom")>>, <<>>),
      Policy(<<Pattern("any", "rm")>>, <<>>),
      Policy(<<>>, <<Pattern("head", "ls")>>),
      Policy(<<Pattern("head", "ls")>>, <<Pattern("head", "ls")>>),
      Policy(<<Pattern("invalid", "custom"), Pattern("any", "custom")>>, <<Pattern("head", "cat")>>),
      Policy(<<Pattern("char", ">"), Pattern("char", "<")>>, <<>>),
      Policy(<<Pattern("head", "echo")>>, <<Pattern("any", "mv")>>) }

NoCmdCall == [command |-> <<>>, policy |-> NoPolicy, result |-> None]

\* A caller classifies the command it was given.
Classify ==
    /\ cmdCall.result = None
    /\ cmdCall' = [cmdCall EXCEPT !.result = classifyCommand(cmdCall.command, cmdCall.policy)]
    /\ UNCHANGED <<registry, scopeCall, rangeCall, patchRun, gateVars, patchVars, appendVars, engineVars, traceVars>>

\* The caller is given the next command; the policy file stays what it is.
NextCommand(command) ==
    /\ cmdCall.result # None
    /\ cmdCall' = [cmdCall EXCEPT !.command = command, !.result = None]
    /\ UNCHANGED <<registry, scopeCall, rangeCall, patchRun, gateVars, patchVars, appendVars, engineVars, traceVars>>

\* ------------------------------------------------------------------------
\* The tool registry  (src/hooks/ToolClassifier.ts)
\* ------------------------------------------------------------------------
RegistryTools ==
    {"write_to_file", "apply_patch", "generate_image", "execute_command", "read_file",
     "list_files", "my_custom_destructive"}

\* isDestructiveTool / isMutatingTool on the sets as they are now.
isDestructiveToolIn(destructive, toolName) == toolName # None /\ toolName \in destructive

isMutatingToolIn(mutating, toolName) == toolName # None /\ toolName \in mutating

\* registerDestructiveTool: destructiveTools.add(toolName)
registerDestructiveTool(toolName) ==
    /\ toolName \notin registry.destructive
    /\ registry' = [registry EXCEPT !.destructive = @ \cup {toolName}]
    /\ UNCHANGED <<cmdCall, scopeCall, rangeCall, patchRun, gateVars, patchVars, appendVars, engineVars, traceVars>>

\* unregisterDestructiveTool: destructiveTools.delete(toolName)
unregisterDestructiveTool(toolName) ==
    /\ toolName \in registry.destructive
    /\ registry' = [registry EXCEPT !.destructive = @ \ {toolName}]
    /\ UNCHANGED <<cmdCall, scopeCall, rangeCall, patchRun, gateVars, patchVars, appendVars, engineVars, traceVars>>

InitRegistry == [destructive |-> destructiveTools, mutating |-> mutatingTools]

\* ------------------------------------------------------------------------
\* matchesScope calls  (src/hooks/ScopeEnforcementHook.ts)
\* ------------------------------------------------------------------------
ScopeEntries ==
    { <<"s">>, <<".", "s">>, <<"s", "a">>, <<"s", "..", "o">>, <<>>, <<"..">>, <<"sx">>,
      <<"*">>, <<"?">>, <<"[ab]">>, <<"s", "*">>, <<"s", "[ab]">>, <<".", "s", "*">>, <<"o", "?">> }

ScopeTargets ==
    { <<"s">>, <<"s", "a">>, <<"sx">>, <<"sx", "a">>, <<".", "s", "a">>, <<"s", "d", "a">>,
      <<"o", "b">>, <<"s", "..", "o", "b">>, <<"..", "s">>, <<>> }

NoScopeCall == [scope |-> <<>>, target |-> <<>>, result |-> None]

\* The gate asks whether a target lies in a scope entry; ignores may throw.
MatchScope ==
    /\ scopeCall.result = None
    /\ scopeCall' = [scopeCall EXCEPT !.result =
                        IF hasGlob(scopeCall.scope) /\ ignoresThrows(scopeCall.target) THEN "throws"
                        ELSE IF matchesScope(scopeCall.scope, scopeCall.target) THEN "true"
                        ELSE "false"]
    /\ UNCHANGED <<cmdCall, registry, rangeCall, patchRun, gateVars, patchVars, appendVars, engineVars, traceVars>>

\* The gate goes on to the next target path of the call.
NextTarget(target) ==
    /\ scopeCall.result # None
    /\ scopeCall' = [scopeCall EXCEPT !.target = target, !.result = None]
    /\ UNCHANGED <<cmdCall, registry, rangeCall, patchRun, gateVars, patchVars, appendVars, engineVars, traceVars>>

\* ------------------------------------------------------------------------
\* computeAddedRanges  (src/hooks/traceUtils.ts)
\* A content is the sequence of its lines, each [text, eol]: eol is "n" for
\* \n, "rn" for \r\n, "r" for \r, and "" on a last line that is not ended.
\* ------------------------------------------------------------------------
MaxBeforeLines == 2
MaxAfterLines == 3

TextLine(text, eol) == [text |-> text, eol |-> eol]

\* The contents of at most maxLines lines with the given line ends: only the
\* last line can lack its end, and then it has text.
Contents(maxLines, eols) ==
    {c \in SeqUpTo([text : {"", "a", "b"}, eol : eols \cup {""}], maxLines) :
        \A i \in 1..Len(c) : c[i].eol = "" => (i = Len(c) /\ c[i].text # "")}

\* content.replace(/\r\n/g, "\n").replace(/\r/g, "\n")
normalizeContent(content) ==
    [i \in 1..Len(content) |->
        [content[i] EXCEPT !.eol = IF @ \in {"rn", "r"} THEN "n" ELSE @]]

\* countLines of a piece of normalized text: the parts between the \n, the
\* empty part after a final \n not counted.
countLines(value) ==
    IF value = <<>> THEN 0
    ELSE LET parts == Cardinality({i \in 1..Len(value) : value[i].eol = "n"}) + 1
         IN IF value[Len(value)].eol = "n" THEN parts - 1 ELSE parts

\* The edit scripts from oldTokens to newTokens over whole lines (a line with
\* its end is one token): "keep" a common token, "del" an old, "add" a new one.
RECURSIVE EditScripts(_, _)
EditScripts(oldTokens, newTokens) ==
    IF oldTokens = <<>> /\ newTokens = <<>> THEN {<<>>}
    ELSE (IF oldTokens # <<>>
          THEN {<<"del">> \o e : e \in EditScripts(Tail(oldTokens), newTokens)} ELSE {})
         \cup
         (IF newTokens # <<>>
          THEN {<<"add">> \o e : e \in EditScripts(oldTokens, Tail(newTokens))} ELSE {})
         \cup
         (IF oldTokens # <<>> /\ newTokens # <<>> /\ Head(oldTokens) = Head(newTokens)
          THEN {<<"keep">> \o e : e \in EditScripts(Tail(oldTokens), Tail(newTokens))} ELSE {})

\* diff.diffLines of the package diff: a shortest edit script; which one of
\* several the package picks is left open.
diffLines(normalizedBefore, normalizedAfter) ==
    LET all == EditScripts(normalizedBefore, normalizedAfter)
    IN {e \in all : \A f \in all : Len(e) <= Len(f)}

\* The change objects of a script: every maximal run of one kind is one
\* change, its value the text of the run.
RECURSIVE changesOf(_, _, _)
changesOf(script, oldTokens, newTokens) ==
    IF script = <<>> THEN <<>>
    ELSE LET kind == Head(script)
             token == IF kind = "del" THEN Head(oldTokens) ELSE Head(newTokens)
             rest == changesOf(Tail(script),
                               IF kind = "add" THEN oldTokens ELSE Tail(oldTokens),
                               IF kind = "del" THEN newTokens ELSE Tail(newTokens))
         IN IF rest # <<>> /\ rest[1].kind = kind
            THEN <<[kind |-> kind, value |-> <<token>> \o rest[1].value]>> \o Tail(rest)
            ELSE <<[kind |-> kind, value |-> <<token>>]>> \o rest

TraceRange(start_line, end_line, content_hash) ==
    [start_line |-> start_line, end_line |-> end_line, content_hash |-> content_hash]

\* A writer that records the whole file as added.
wholeFileRange(before, after, script) ==
    IF after = <<>> THEN <<>>
    ELSE <<TraceRange(1, Len(after), <<"sha256", normalizeContent(after)>>)>>

\* The loop of computeAddedRanges over the changes, from line newLine on.
RECURSIVE addedRanges(_, _)
addedRanges(changes, newLine) ==
    IF changes = <<>> THEN <<>>
    ELSE LET change == Head(changes)
             lineCount == countLines(change.value)
         IN IF change.kind = "add"
            THEN (IF lineCount > 0
                  THEN <<TraceRange(newLine, newLine + lineCount - 1, <<"sha256", change.value>>)>>
                  ELSE <<>>)
                 \o addedRanges(Tail(changes), newLine + lineCount)
            ELSE IF change.kind = "del"
            THEN addedRanges(Tail(changes), newLine)
            ELSE addedRanges(Tail(changes), newLine + lineCount)

\* computeAddedRanges(before, after) when diffLines answers script.
computeAddedRanges(before, after, script) ==
    addedRanges(changesOf(script, normalizeContent(before), normalizeContent(after)), 1)

NoRangeCall ==
    [before |-> <<>>, after |-> <<>>, script |-> <<>>, ranges |-> <<>>, done |-> FALSE]

\* TraceWriterHook calls computeAddedRanges(snapshot.before ?? "", after).
ComputeRanges ==
    /\ ~rangeCall.done
    /\ \E script \in diffLines(normalizeContent(rangeCall.before),
                                normalizeContent(rangeCall.after)) :
           rangeCall' = [rangeCall EXCEPT
                            !.script = script,
                            !.ranges = computeAddedRanges(rangeCall.before, rangeCall.after, script),
                            !.done = TRUE]
    /\ UNCHANGED <<cmdCall, registry, scopeCall, patchRun, gateVars, patchVars, appendVars, engineVars, traceVars>>

\* ------------------------------------------------------------------------
\* ApplyPatchTool.execute on a patch of several files
\* (src/core/tools/ApplyPatchTool.ts).  Each handler is taken whole: it
\* reports stale_file when checkOptimisticLock finds the file changed since
\* the snapshot of the call, asks for approval otherwise and writes when the
\* user approves.
\* ------------------------------------------------------------------------
MaxChanges == 3

PatchPaths == {PA, PB, <<"s", "c">>}

\* The changes of a parsed patch: up to MaxChanges files, each once.
ChangeLists ==
    {c \in SeqUpTo(PatchPaths, MaxChanges) :
        c # <<>> /\ \A i, j \in 1..Len(c) : i # j => c[i] # c[j]}

NoPatchRun ==
    [changes |-> <<>>,   \* processAllHunks: the path of every file change
     changed |-> {},     \* the files written by others since the snapshot
     at |-> 1,           \* the change the loop is at
     results |-> <<>>,   \* what the handler of each change pushed
     written |-> <<>>,   \* the files this call wrote, in order
     returned |-> FALSE] \* execute has returned

\* execute after the handler of the change returned: the loop goes on to the
\* next change whatever the handler pushed, and returns after the last one.
afterHandler(run, result) ==
    [run EXCEPT !.results = Append(@, result),
                !.at = @ + 1,
                !.written = IF result = "ok" THEN Append(@, run.changes[run.at]) ELSE @,
                !.returned = run.at = Len(run.changes)]

\* One turn of the loop: the access check, then the handler of the change.
ProcessChange(accessAllowed, approved) ==
    /\ ~patchRun.returned
    /\ patchRun.changes # <<>>
    /\ LET relPath == patchRun.changes[patchRun.at]
       IN patchRun' =
              IF ~accessAllowed
              THEN [patchRun EXCEPT !.results = Append(@, "rooignore_error"), !.returned = TRUE]
              ELSE afterHandler(patchRun,
                                IF relPath \in patchRun.changed THEN "stale_file"
                                ELSE IF ~approved THEN "rejected"
                                ELSE "ok")
    /\ UNCHANGED <<cmdCall, registry, scopeCall, rangeCall, gateVars, patchVars, appendVars, engineVars, traceVars>>

\* Another process writes a file of the patch that the loop has not reached.
SiblingWritesTarget(relPath) ==
    /\ ~patchRun.returned
    /\ \E i \in patchRun.at..Len(patchRun.changes) : patchRun.changes[i] = relPath
    /\ relPath \notin patchRun.changed
    /\ patchRun' = [patchRun EXCEPT !.changed = @ \cup {relPath}]
    /\ UNCHANGED <<cmdCall, registry, scopeCall, rangeCall, gateVars, patchVars, appendVars, engineVars, traceVars>>

ClassIdle ==
    /\ cmdCall = NoCmdCall
    /\ registry = InitRegistry
    /\ scopeCall = NoScopeCall
    /\ rangeCall = NoRangeCall
    /\ patchRun = NoPatchRun

\* ------------------------------------------------------------------------
\* Ledgers of agent_trace.jsonl for the selections of intent i1
\* ------------------------------------------------------------------------
MaxLedgerLines == 7

\* A line of the ledger: "linked" is what TraceWriterHook writes for a call
\* of intent i1 on s/a, "top" what it writes for a call of i1 without target
\* paths (files is []), "other" a call of intent i2, "garbage" a line
\* JSON.parse rejects.
LedgerLine(kind, id) ==
    CASE kind = "linked" ->
             TraceLine(id, "i1", <<FileRecord(PA, hashBuffer(<<"a">>), "i1")>>)
      [] kind = "top" -> TraceLine(id, "i1", <<>>)
      [] kind = "other" ->
             TraceLine(id, "i2", <<FileRecord(PB, hashBuffer(<<"b">>), "i2")>>)
      [] OTHER -> [parses |-> FALSE, id |-> None, intent_id |-> None, files |-> <<>>]

Ledger(kinds) == [i \in 1..Len(kinds) |-> LedgerLine(kinds[i], TraceIds[i])]

Ledgers ==
    { Ledger(<<>>),
      Ledger(<<"garbage", "other">>),
      Ledger(<<"linked", "garbage", "other", "linked", "linked">>),
      Ledger(<<"other", "top", "garbage">>) }

HistoryIntents ==
    { WorkspaceIntents,
      IntentsFile("list",
                  << [id |-> "i1", status |-> "IN_PROGRESS", owned_scope |-> << <<"o">> >>],
                     [id |-> "i2", status |-> "IN_PROGRESS", owned_scope |-> << <<"o">> >>] >>) }

HistoryToolUses ==
    {[ToolUse("select_active_intent") EXCEPT !.nIntent = i] : i \in {"i1", "i2"}}

\* TraceWriterHook appends the entry of another call of intent i1.
LedgerAppend(kind) ==
    /\ phase = "idle"
    /\ Len(traceFile) < MaxLedgerLines
    /\ traceFile' = Append(traceFile, LedgerLine(kind, TraceIds[Len(traceFile) + 1]))
    /\ UNCHANGED <<wsFile, tw, gateVars, patchVars, appendVars, engineVars, classVars>>

GateInit ==
    /\ task = InitTask
    /\ agentMd = <<>>
    /\ pendingAppends = {}
    /\ last = NoCall
    /\ phase = "idle"
    /\ hist = [selected |-> FALSE, userApproved |-> {}, selectedWith |-> NoSelection,
               approvedFor |-> {}]

\* Sessions of file tools, on a workspace whose decisions file cannot be written.
Init ==
    /\ GateInit /\ intentsFile = WorkspaceIntents /\ ignoreFile = IntentIgnore /\ decisionsWritable = FALSE
    /\ decisionsFile = <<>>
    /\ AppendInit /\ PatchIdle /\ EngineIdle /\ TraceIdle /\ ClassIdle

Next ==
    \/ \E toolUse \in FileToolUses, answers \in AnswerSeqs, verdict \in Verdicts :
           GateCall(toolUse, answers, verdict)
    \/ InvokeHandler
    \/ Finish
    \/ \E text \in Messages : UserMessage(text)
    \/ \E content \in AgentMdContents : EditAgentMd(content)

Spec == Init /\ [][Next]_vars

\* Sessions of file tools whose handlers find targets changed on disk; no user
\* message is classified and AGENT.md stays empty.
StaleNext ==
    \/ \E toolUse \in FileToolUses, answers \in AnswerSeqs :
           GateCall(toolUse, answers, "safe")
    \/ InvokeHandler
    \/ \E p \in {PA, PDotA, PB} : HandlerFindsStale(p)
    \/ Finish

SpecStale == Init /\ [][StaleNext]_vars

\* Sessions of commands, with the decisions file written and read back.
\* A line left in intent_decisions.jsonl by an earlier session, when i3 was IN_PROGRESS.
EarlierDecision ==
    Decision("i3", "execute_command", "approved", "destructive_command", <<>>, CmdRm)

CmdInit ==
    /\ GateInit /\ intentsFile = WorkspaceIntents /\ ignoreFile = IntentIgnore /\ decisionsWritable = TRUE
    /\ decisionsFile \in {<<>>, <<EarlierDecision>>}
    /\ AppendInit /\ PatchIdle /\ EngineIdle /\ TraceIdle /\ ClassIdle

CmdNext ==
    \/ \E toolUse \in CommandToolUses, answers \in AnswerSeqs :
           GateCall(toolUse, answers, "safe")
    \/ InvokeHandler
    \/ Finish
    \/ \E line \in pendingAppends : AppendLands(line)
    \/ \E b \in BOOLEAN : SetWritable(b)
    \/ NewSession

SpecCmd == CmdInit /\ [][CmdNext]_vars

\* Sessions that select intents while active_intents.yaml changes under them.
Intent(id, status, scope) == [id |-> id, status |-> status, owned_scope |-> << scope >>]

IntentsFiles ==
    {IntentsFile(k, <<>>) : k \in {"missing", "unreadable", "unparseable", "nolist"}}
    \cup {IntentsFile("list", r) :
             r \in {active_intents,
                    <<Intent("i1", "DONE", <<"s">>), Intent("i2", "IN_PROGRESS", <<"o">>)>>,
                    <<Intent("i1", "IN_PROGRESS", <<"s">>), Intent("i3", "IN_PROGRESS", <<"s">>)>>,
                    <<Intent("i1", "DONE", <<"s">>), Intent("i1", "IN_PROGRESS", <<"s">>)>>}}

SelectToolUses ==
    {[ToolUse("select_active_intent") EXCEPT !.nIntent = i, !.pIntent = j] :
        i \in {None, "i1", "i2", "i3", "i9"}, j \in {None, "i1"}}
    \cup {[ToolUse("write_to_file") EXCEPT !.path = PA]}

SelectInit ==
    /\ GateInit /\ intentsFile \in IntentsFiles /\ ignoreFile = IntentIgnore
    /\ decisionsWritable = FALSE /\ decisionsFile = <<>>
    /\ AppendInit /\ PatchIdle /\ EngineIdle /\ TraceIdle /\ ClassIdle

SelectNext ==
    \/ \E toolUse \in SelectToolUses, answers \in AnswerSeqs :
           GateCall(toolUse, answers, "safe")
    \/ \E file \in IntentsFiles : EditIntents(file)
    \/ InvokeHandler
    \/ Finish

SpecSelect == SelectInit /\ [][SelectNext]_vars

\* Concurrent appendWithLock callers; no tool call is in progress.
AppendSpecInit ==
    /\ AppendInit /\ GateInit /\ intentsFile = WorkspaceIntents /\ ignoreFile = <<>> /\ decisionsFile = <<>>
    /\ decisionsWritable = TRUE /\ PatchIdle /\ EngineIdle /\ TraceIdle /\ ClassIdle

SpecAppend == AppendSpecInit /\ [][AppendNext]_vars

\* Two writers of one sidecar file, each writing it the way its hook does.
SidecarSpecInit ==
    /\ sidecar \in SidecarFiles
    /\ lockExists = FALSE
    /\ aFile = <<>>
    /\ apc = [p \in Procs |-> "idle"]
    /\ attempt = [p \in Procs |-> 0]
    /\ written = [p \in Procs |-> 0]
    /\ aBefore = [p \in Procs |-> <<>>]
    /\ aResult = [p \in Procs |-> None]
    /\ GateInit /\ intentsFile = WorkspaceIntents /\ ignoreFile = <<>> /\ decisionsFile = <<>>
    /\ decisionsWritable = TRUE /\ PatchIdle /\ EngineIdle /\ TraceIdle /\ ClassIdle

SidecarNext ==
    \E p \in Procs :
        \/ SidecarWrite(p)
        \/ DirectChunk(p)
        \/ DirectWriteError(p)
        \/ AppendOpenOk(p)
        \/ AppendRetry(p)
        \/ AppendGiveUp(p)
        \/ AppendOpenError(p)
        \/ AppendChunk(p)
        \/ AppendWriteError(p)
        \/ AppendRelease(p)
        \/ AppendUnlinkFails(p)

SpecSidecar == SidecarSpecInit /\ [][SidecarNext]_vars

\* The same callers with the event loop running every pending continuation:
\* a caller inside appendWithLock is not suspended forever.
SpecAppendLive ==
    AppendSpecInit /\ [][AppendNext]_vars /\ \A p \in Procs : WF_vars(AppendStep(p))

\* The hook engine: hooks are registered, then tool calls are run through
\* the pre-hooks, the handler and the post-hooks.
EngineSpecInit ==
    /\ EngineIdle /\ AppendInit /\ TraceIdle /\ ClassIdle /\ GateInit /\ intentsFile = WorkspaceIntents /\ ignoreFile = <<>> /\ decisionsFile = <<>>
    /\ decisionsWritable = TRUE /\ PatchIdle

EngineNext ==
    \/ \E hook \in HookPool : registerHook(hook)
    \/ clearHooks
    \/ \E toolName \in EngineTools : StartPreHooks(toolName)
    \/ \E o \in PreOutcomes : PreHookStep(o)
    \/ RejectCall
    \/ RunHandler
    \/ StartPostHooks
    \/ \E o \in PostOutcomes : PostHookStep(o)
    \/ EngineFinish

SpecEngine == EngineSpecInit /\ [][EngineNext]_vars

\* One apply_patch call on one file, with a sibling writer.
PatchSpecInit ==
    /\ PatchInit /\ AppendInit /\ GateInit /\ intentsFile = WorkspaceIntents /\ ignoreFile = <<>> /\ decisionsFile = <<>>
    /\ decisionsWritable = TRUE /\ EngineIdle /\ TraceIdle /\ ClassIdle

SpecPatch == PatchSpecInit /\ [][PatchNext]_vars

\* One workspace file under the optimistic lock: snapshots, lock checks by
\* the handlers, LessonsLearnedHook after them, and writes to the file by
\* the handler or by anyone else.
LockSpecInit ==
    /\ GateInit /\ intentsFile = WorkspaceIntents /\ ignoreFile = <<>> /\ decisionsFile = <<>>
    /\ decisionsWritable = TRUE /\ AppendInit /\ PatchIdle /\ EngineIdle
    /\ wsFile \in WorkspaceFiles
    /\ traceFile = <<>>
    /\ tw = TwIdle
    /\ ClassIdle

LockNext ==
    \/ \E relPath \in {PA, PDotA} : SnapshotTarget("c1", relPath)
    \/ \E file \in WorkspaceFiles : WorkspaceWrite(file)
    \/ \E toolCallId \in CallIds \cup {None}, relPath \in {PA, PDotA} :
           CheckLock(toolCallId, relPath)

SpecLock == LockSpecInit /\ [][LockNext]_vars

\* LessonsLearnedHook after the calls on one text file that the handlers
\* find changed or unchanged.
LessonsSpecInit ==
    /\ GateInit /\ intentsFile = WorkspaceIntents /\ ignoreFile = <<>> /\ decisionsFile = <<>>
    /\ decisionsWritable = TRUE /\ AppendInit /\ PatchIdle /\ EngineIdle
    /\ wsFile \in {NoFile, File(<<"a">>)}
    /\ traceFile = <<>>
    /\ tw = TwIdle
    /\ ClassIdle

LessonsNext ==
    \/ SnapshotTarget("c1", PA)
    \/ \E file \in {NoFile, File(<<"a">>), File(<<"b">>)} : WorkspaceWrite(file)
    \/ CheckLock("c1", PA)
    \/ \E appended \in BOOLEAN : LessonsLearned(appended)

SpecLessons == LessonsSpecInit /\ [][LessonsNext]_vars

\* TraceWriterHook after the calls on one workspace file, with writes to
\* the file by anyone else.
TraceSpecInit ==
    /\ GateInit /\ intentsFile = WorkspaceIntents /\ ignoreFile = <<>> /\ decisionsFile = <<>>
    /\ decisionsWritable = TRUE /\ AppendInit /\ PatchIdle /\ EngineIdle
    /\ wsFile \in WorkspaceFiles
    /\ traceFile = <<>>
    /\ tw = TwIdle
    /\ ClassIdle

TraceNext ==
    \/ \E relPath \in {PA, PDotA} : SnapshotTarget("c1", relPath)
    \/ \E file \in WorkspaceFiles : WorkspaceWrite(file)
    \/ \E targets \in {<<>>, <<PA>>}, intentId \in {None, "i1"} :
           TraceRead("c1", targets, intentId)
    \/ TraceMkdirFails("c1")
    \/ TraceAppend

SpecTrace == TraceSpecInit /\ [][TraceNext]_vars

\* Selections of an intent on a workspace whose ledger and AGENT.md grow.
HistorySpecInit ==
    /\ GateInit /\ intentsFile = WorkspaceIntents /\ ignoreFile = IntentIgnore
    /\ decisionsWritable = FALSE /\ decisionsFile = <<>>
    /\ AppendInit /\ PatchIdle /\ EngineIdle /\ ClassIdle
    /\ wsFile = NoFile
    /\ traceFile \in Ledgers
    /\ tw = TwIdle

HistoryNext ==
    \/ \E toolUse \in HistoryToolUses : GateCall(toolUse, <<>>, "safe")
    \/ InvokeHandler
    \/ Finish
    \/ \E content \in AgentMdContents : EditAgentMd(content)
    \/ \E kind \in {"linked", "top"} : LedgerAppend(kind)
    \/ \E file \in HistoryIntents : EditIntents(file)

SpecHistory == HistorySpecInit /\ [][HistoryNext]_vars

\* classifyCommand on commands and policy files.
ClassifySpecInit ==
    /\ GateInit /\ intentsFile = WorkspaceIntents /\ ignoreFile = <<>> /\ decisionsFile = <<>>
    /\ decisionsWritable = TRUE /\ AppendInit /\ PatchIdle /\ EngineIdle /\ TraceIdle
    /\ cmdCall \in [command : PolicyCommands, policy : Policies, result : {None}]
    /\ registry = InitRegistry
    /\ scopeCall = NoScopeCall
    /\ rangeCall = NoRangeCall
    /\ patchRun = NoPatchRun

ClassifyNext ==
    \/ Classify
    \/ \E command \in PolicyCommands : NextCommand(command)

SpecClassify == ClassifySpecInit /\ [][ClassifyNext]_vars

\* The tool registry under registerDestructiveTool and unregisterDestructiveTool.
RegistrySpecInit ==
    /\ GateInit /\ intentsFile = WorkspaceIntents /\ ignoreFile = <<>> /\ decisionsFile = <<>>
    /\ decisionsWritable = TRUE /\ AppendInit /\ PatchIdle /\ EngineIdle /\ TraceIdle
    /\ cmdCall = NoCmdCall
    /\ registry = InitRegistry
    /\ scopeCall = NoScopeCall
    /\ rangeCall = NoRangeCall
    /\ patchRun = NoPatchRun

RegistryNext ==
    \/ \E toolName \in RegistryTools : registerDestructiveTool(toolName)
    \/ \E toolName \in RegistryTools : unregisterDestructiveTool(toolName)

SpecRegistry == RegistrySpecInit /\ [][RegistryNext]_vars

\* matchesScope on scope entries and target paths.
ScopeSpecInit ==
    /\ GateInit /\ intentsFile = WorkspaceIntents /\ ignoreFile = <<>> /\ decisionsFile = <<>>
    /\ decisionsWritable = TRUE /\ AppendInit /\ PatchIdle /\ EngineIdle /\ TraceIdle
    /\ cmdCall = NoCmdCall
    /\ registry = InitRegistry
    /\ scopeCall \in [scope : ScopeEntries, target : ScopeTargets, result : {None}]
    /\ rangeCall = NoRangeCall
    /\ patchRun = NoPatchRun

ScopeNext ==
    \/ MatchScope
    \/ \E target \in ScopeTargets : NextTarget(target)

SpecScope == ScopeSpecInit /\ [][ScopeNext]_vars

\* ------------------------------------------------------------------------
\* Properties
\* ------------------------------------------------------------------------
\* The positions at which the chunk sequence c starts in the file f.
\* What the properties read from the record of the call in progress.
Called == phase # "idle"

ActiveBefore == last.before.activeIntent

HasIntent == ActiveBefore.id # None

IgnoreListed == ActiveBefore.id \in IgnoredIntentIds(last.ignoreLines)

Targets == extractTargetPaths(last.args)

\* A complete call under an active intent that .intentignore does not list.
Enforced == Called /\ ~last.args.partial /\ HasIntent /\ ~IgnoreListed

Answered(kind, subject, approved) ==
    \E i \in 1..Len(last.prompts) :
        last.prompts[i] = [kind |-> kind, subject |-> subject, approved |-> approved]

AnsweredSome(kind, approved) ==
    \E i \in 1..Len(last.prompts) :
        last.prompts[i].kind = kind /\ last.prompts[i].approved = approved

ErrorIs(type, code) ==
    /\ ~last.res.shouldProceed
    /\ last.res.error.error_type = type
    /\ last.res.error.code = code

\* C1 as stated: every call to a mutating tool made with no active intent is
\* vetoed by the gate and its handler is never invoked.
C1_AsStated ==
    (Called /\ isMutatingTool(last.args.name) /\ ~HasIntent) =>
        ~last.res.shouldProceed /\ ~last.handled

\* C1: a complete (non-partial) call to a destructive tool or to
\* execute_command made with no active intent is vetoed with the
\* no-active-intent message, without any prompt, and its handler is never
\* invoked; such a call passes the gate only in a session in which a
\* select_active_intent has succeeded before; and no handler runs for a call
\* the gate vetoed.
C1_NoIntentVeto ==
    LET requiresIntent == last.args.name \in destructiveTools \cup {"execute_command"}
    IN /\ (Called /\ ~last.args.partial /\ requiresIntent /\ ~HasIntent) =>
              /\ last.res = Veto(NoActiveIntentMessage)
              /\ last.prompts = <<>>
              /\ ~last.handled
       /\ (Called /\ ~last.args.partial /\ requiresIntent /\ last.res.shouldProceed) =>
              hist.selected /\ HasIntent
       /\ (Called /\ last.handled) => last.res.shouldProceed

C1_Witness ==
    /\ phase = "gated"
    /\ ~last.args.partial
    /\ isMutatingTool(last.args.name)
    /\ Targets # <<>>
    /\ ~HasIntent
    /\ last.res = Veto(NoActiveIntentMessage)

\* C2 as stated: a complete mutating call under an enforced intent, with at
\* least one target path, passes only if every target path matches an entry of
\* the owned scope the intent declares or was approved in a scope-violation
\* prompt of that call; a denied prompt gives scope_violation / REQ-001 naming
\* the denied path.
C2_AsStated ==
    (Enforced /\ isMutatingTool(last.args.name) /\ Targets # <<>>) =>
        /\ last.res.shouldProceed =>
               \A p \in Range(Targets) :
                   \/ \E s \in DeclaredScope(ActiveBefore.id) : matchesScope(s, p)
                   \/ Answered("scope_violation", p, TRUE)
        /\ \A p \in Range(Targets) :
               Answered("scope_violation", p, FALSE) =>
                   ErrorIs("scope_violation", "REQ-001") /\ last.res.error.path = p

\* The user-intent classification the gate worked with in the call.
ClassificationUsed ==
    IF last.before.lastUserMessageText = None THEN NoClassification
    ELSE task.lastUserIntentClassification

\* C5 as stated: a complete mutating call under an enforced intent whose patch
\* carries a delete or move marker, or whose user-intent verdict is
\* destructive, passes only with a destructive-operation approval, asked in
\* that call or cached, whatever the scope of its targets; a denied prompt
\* gives destructive_operation_denied / REQ-008.
C5_AsStated ==
    LET key == getDestructiveApprovalKey(ClassificationUsed, last.args, Targets)
        cached == key # NoKey /\ getDestructiveIntentApproval(last.before, key) = "approved"
    IN (/\ Enforced
        /\ isMutatingTool(last.args.name)
        /\ getDestructiveOperationInfo(last.args) \/ ClassificationUsed.verdict = "destructive") =>
           /\ last.res.shouldProceed =>
                  AnsweredSome("destructive_operation", TRUE) \/ cached
           /\ AnsweredSome("destructive_operation", FALSE) =>
                  ErrorIs("destructive_operation_denied", "REQ-008")

BlockedTargets == {p \in Range(Targets) : getStaleFileBlock(last.before, p)}

\* C9 as stated: a call to a mutating tool that targets a stale-blocked path
\* passes the gate only if the user approved the override prompt.
C9_AsStated ==
    (Called /\ isMutatingTool(last.args.name) /\ BlockedTargets # {}
        /\ last.res.shouldProceed) =>
            AnsweredSome("stale_lock", TRUE)

\* C9: a complete mutating call under an enforced intent that targets a
\* stale-blocked path is asked the override prompt first and passes only if it
\* is approved; a denial gives stale_lock / REQ-007 naming a blocked path and
\* changes no block; an approval leaves no target path of the call blocked;
\* and the gate removes a block in no other way.
C9_StaleBlock ==
    /\ (Enforced /\ isMutatingTool(last.args.name) /\ BlockedTargets # {}) =>
           /\ last.prompts # <<>>
           /\ last.prompts[1].kind = "stale_lock"
           /\ last.prompts[1].subject \in BlockedTargets
           /\ last.res.shouldProceed => last.prompts[1].approved
           /\ ~last.prompts[1].approved =>
                  /\ ErrorIs("stale_lock", "REQ-007")
                  /\ last.res.error.path = last.prompts[1].subject
                  /\ task.staleFileBlocks = last.before.staleFileBlocks
           /\ (last.prompts[1].approved /\ phase = "gated") =>
                  \A p \in Range(Targets) : ~getStaleFileBlock(task, p)
    /\ (phase = "gated" /\ ~(last.before.staleFileBlocks \subseteq task.staleFileBlocks)) =>
           AnsweredSome("stale_lock", TRUE)

C9_Witness ==
    /\ phase = "gated"
    /\ Enforced
    /\ Cardinality(BlockedTargets) = 2
    /\ last.prompts[1] = [kind |-> "stale_lock", subject |-> Targets[1], approved |-> TRUE]
    /\ task.staleFileBlocks = {}

\* C3 as stated: when another process has changed the file between the
\* snapshot and the handler's write, leaving content other than the snapshot's,
\* the handler does not write and the file keeps the sibling's content; the
\* stale_file / REQ-007 error it returns carries the snapshot's hash as
\* expected_hash and the hash of the sibling's content as actual_hash.
C3_AsStated ==
    (/\ hpc = "done"
     /\ ph.changedAfterSnapshot
     /\ ph.siblingContent # snapshot.before) =>
        /\ ~ph.wrote
        /\ disk = ph.siblingContent
        /\ hResult.type = "stale_file" =>
               hResult = StaleFileError(hashContent(snapshot.before),
                                        hashContent(ph.siblingContent))

\* C4 as stated: a call that reaches the handler's final check before writing
\* is aborted there with stale_file exactly when the hash of the file's bytes
\* read at that check differs from the hash of the snapshot's content.
C4_AsStated ==
    /\ ph.finalChecked =>
           (ph.finalAborted <=> hashContent(ph.atFinalCheck) # hashContent(snapshot.before))
    /\ (ph.finalAborted /\ hpc = "done") => hResult.type = "stale_file" /\ ~ph.wrote

\* The command of the call as the gate reads it, and what it finds about it.
CommandRead == unescapeHtmlEntities(last.args.command)

ClassifiedSafe == classifyCommandWithDebug(unwrapShellCommand(CommandRead)) = "safe"

ApprovalPersisted ==
    \E i \in 1..Len(last.persisted) :
        last.persisted[i] = [last.persisted[i] EXCEPT !.intent_id = ActiveBefore.id,
                                                      !.tool = "execute_command",
                                                      !.decision = "approved",
                                                      !.command = CommandRead]

EnforcedCommand == Enforced /\ last.args.name = "execute_command"

\* C6 as stated: a complete execute_command call with a non-empty command
\* under an enforced intent passes exactly when the command is classified
\* safe, or an approved decision is persisted for the same intent and command,
\* or the user approves the prompt; the prompt is shown only when neither of
\* the first two holds, and a denial gives command_not_authorized / CMD-001.
C6_AsStated ==
    (EnforcedCommand /\ last.args.command # <<>>) =>
        /\ last.res.shouldProceed <=>
               \/ ClassifiedSafe
               \/ ApprovalPersisted
               \/ Answered("destructive_command", CommandRead, TRUE)
        /\ last.prompts # <<>> <=> (~ClassifiedSafe /\ ~ApprovalPersisted)
        /\ ~last.res.shouldProceed => ErrorIs("command_not_authorized", "CMD-001")

\* C6: the same for a command that is not blank (something is left after
\* trimming), the command being read with its HTML entities unescaped and
\* classified after its shell wrapper is removed; a blank command passes
\* without classification or prompt.
C6_CommandGate ==
    /\ (EnforcedCommand /\ Trim(CommandRead) # <<>>) =>
           /\ last.res.shouldProceed <=>
                  \/ ClassifiedSafe
                  \/ ApprovalPersisted
                  \/ Answered("destructive_command", CommandRead, TRUE)
           /\ last.prompts # <<>> <=> (~ClassifiedSafe /\ ~ApprovalPersisted)
           /\ Len(last.prompts) <= 1
           /\ ~last.res.shouldProceed => ErrorIs("command_not_authorized", "CMD-001")
    /\ (EnforcedCommand /\ Trim(CommandRead) = <<>>) =>
           last.res.shouldProceed /\ last.prompts = <<>>

C6_Witness ==
    /\ EnforcedCommand
    /\ ~ClassifiedSafe
    /\ \E i \in 1..Len(last.persisted) :
           /\ last.persisted[i].command = CommandRead
           /\ last.persisted[i].decision = "approved"
    /\ ~ApprovalPersisted
    /\ Answered("destructive_command", CommandRead, FALSE)
    /\ ErrorIs("command_not_authorized", "CMD-001")

\* C7 as stated: once the user has approved the prompt for a command under an
\* intent, a later complete execute_command call with the same command under
\* the same intent, in this session or a later one, passes without a prompt.
C7_AsStated ==
    (/\ EnforcedCommand
     /\ <<ActiveBefore.id, CommandRead>> \in last.userApprovedBefore) =>
        last.res.shouldProceed /\ last.prompts = <<>>

Occurrences(c, f) == {i \in 1..(Len(f) - Len(c) + 1) : SubSeq(f, i, i + Len(c) - 1) = c}

\* C10: under any interleaving of appendWithLock callers on one file, what the
\* file held when a call began is a prefix of what it holds from then on, and
\* the content of every call that returned normally is in the file exactly
\* once, as one contiguous run of its chunks.
C10_AppendOnlyAtomic ==
    \A p \in Procs :
        /\ apc[p] # "idle" => IsPrefix(aBefore[p], aFile)
        /\ aResult[p] = "ok" =>
               /\ Cardinality(Occurrences(Content(p), aFile)) = 1
               /\ \A k \in 1..ChunksPerCall :
                      Cardinality({i \in 1..Len(aFile) : aFile[i] = Content(p)[k]}) = 1

\* Two callers have contended for the lock and both have appended.
C10_Witness ==
    /\ \A p \in Procs : apc[p] = "done" /\ aResult[p] = "ok"
    /\ \E p \in Procs : attempt[p] > 1
    /\ Len(aFile) = NProcs * ChunksPerCall


\* The callers between a successful exclusive create of the lock file and the
\* end of their finally block.
LockHolders == {p \in Procs : apc[p] \in {"append", "release"}}

\* C11: at any instant at most one appendWithLock caller is between a
\* successful exclusive creation of the lock file and its removal, the lock
\* file exists for as long as it is, and only that caller appends to the file.
C11_OneLockHolder ==
    /\ Cardinality(LockHolders) <= 1
    /\ LockHolders # {} => lockExists
    /\ \A p \in Procs :
           (written[p] > 0 /\ written[p] < ChunksPerCall /\ apc[p] = "append") =>
               SubSeq(aFile, Len(aFile) - written[p] + 1, Len(aFile)) =
                   SubSeq(Content(p), 1, written[p])

C11_Witness ==
    \E p, q \in Procs :
        /\ apc[p] = "append" /\ written[p] = 1
        /\ apc[q] = "open" /\ attempt[q] > 1

\* C12: a caller makes at most 8 attempts to create the lock file; one that
\* returns has appended its content exactly once; one that throws the lock
\* error found the lock file on all 8 attempts and appended nothing; an error
\* other than EEXIST ends the call in the attempt it occurs in; and every call
\* that is entered ends.
C12_BoundedRetry ==
    /\ [](\A p \in Procs :
            /\ attempt[p] <= 8
            /\ aResult[p] = "ok" =>
                   /\ written[p] = ChunksPerCall
                   /\ Cardinality(Occurrences(Content(p), aFile)) = 1
            /\ aResult[p] = "lock_error" =>
                   /\ attempt[p] = 8
                   /\ written[p] = 0
                   /\ \A i \in 1..Len(aFile) : aFile[i][1] # p
            /\ (aResult[p] = "io_error" /\ apc[p] = "done") => written[p] < ChunksPerCall)
    /\ \A p \in Procs : (apc[p] = "open") ~> (apc[p] = "done")

C12_Witness ==
    \E p, q \in Procs :
        /\ aResult[p] = "lock_error" /\ attempt[p] = 8 /\ apc[p] = "done"
        /\ aResult[q] = "ok" /\ apc[q] = "done"


\* The writers that have started appending to the sidecar file and have not
\* finished.
ActiveWriters == {p \in Procs : apc[p] \in {"direct", "append"}}

\* C13 as stated: whoever is writing a shared sidecar file holds that file's
\* lock, and no two writers of the file are active at once.
C13_AsStated ==
    /\ \A p \in ActiveWriters : apc[p] = "append" /\ lockExists
    /\ Cardinality(ActiveWriters) <= 1


\* The names of the registered hooks of a phase that apply to the tool of the
\* call in progress, in registration order.
MatchingNames(hookPhase) ==
    LET matches(hook) == /\ hook.phase = hookPhase
                         /\ (hook.filtered => eng.tool \in hook.toolFilter)
        matching == SelectSeq(hooks, matches)
    IN [k \in 1..Len(matching) |-> matching[k].name]

PreVetoAt(k) == eng.outcomes[k].kind = "return" /\ ~eng.outcomes[k].shouldProceed

PreThrowAt(k) == eng.outcomes[k].kind = "throw"

\* C14: executePreHooks invokes the pre-hooks that match the tool in
\* registration order; every hook before the last invoked one let the call
\* proceed; when a hook returns shouldProceed=false the loop is over, no later
\* hook is invoked, the result is shouldProceed=false with that hook's error
\* message (or the engine's "blocked execution" text when the hook gave none)
\* and the handler does not run; with no veto and no throw every matching hook
\* is invoked and the call proceeds.
C14_FirstVetoStops ==
    LET n == Len(eng.invoked)
    IN eng.pc # "idle" =>
        /\ IsPrefix(eng.invoked, MatchingNames("pre"))
        /\ Len(eng.outcomes) = n
        /\ \A k \in 1..n : k < n => ~PreVetoAt(k) /\ ~PreThrowAt(k)
        /\ \A k \in 1..n : PreVetoAt(k) =>
              /\ eng.pc \in {"preDone", "rejected"}
              /\ ~eng.finalResult.shouldProceed
              /\ eng.finalResult.errorMessage =
                    IF eng.outcomes[k].errorMessage # <<>> THEN eng.outcomes[k].errorMessage
                    ELSE <<"Hook", eng.invoked[k], "blocked execution">>
              /\ ~eng.handled
        /\ (eng.pc # "pre" /\ \A k \in 1..n : ~PreVetoAt(k) /\ ~PreThrowAt(k)) =>
              /\ eng.invoked = MatchingNames("pre")
              /\ eng.finalResult.shouldProceed

C14_Witness ==
    /\ eng.pc = "rejected"
    /\ Len(eng.applicable) = 2
    /\ eng.invoked = <<"trace_snapshot">>
    /\ PreVetoAt(1)
    /\ eng.finalResult.errorMessage = <<"denied">>
    /\ hooks[1].name = "context_injector"

\* C15: when a pre-hook throws, executePreHooks is over with
\* shouldProceed=false and the message "Hook execution failed: <message of
\* the error>", no pre-hook is invoked after the one that threw, and the
\* handler is not invoked.
C15_ThrowIsVeto ==
    \A k \in 1..Len(eng.outcomes) : PreThrowAt(k) =>
        /\ k = Len(eng.invoked)
        /\ eng.pc \in {"preDone", "rejected"}
        /\ ~eng.finalResult.shouldProceed
        /\ eng.finalResult.errorMessage = <<"Hook execution failed:">> \o eng.outcomes[k].errorMessage
        /\ ~eng.handled

C15_Witness ==
    /\ eng.pc = "rejected"
    /\ Len(eng.applicable) = 2
    /\ Len(eng.invoked) = 1
    /\ PreThrowAt(1)

\* C16: executePostHooks invokes every post-hook that matches the tool once,
\* in registration order, whatever the earlier post-hooks returned or threw;
\* it returns one result per hook, the hook's own result or a success=false
\* record carrying the message of the error thrown; and the call stays
\* handled.
C16_AllPostHooksRun ==
    LET n == Len(eng.postInvoked)
    IN eng.pc \in {"post", "postDone"} =>
        /\ IsPrefix(eng.postInvoked, MatchingNames("post"))
        /\ eng.pc = "post" => n < Len(MatchingNames("post"))
        /\ eng.pc = "postDone" => eng.postInvoked = MatchingNames("post")
        /\ Len(eng.results) = n /\ Len(eng.postOutcomes) = n
        /\ \A k \in 1..n :
              IF eng.postOutcomes[k].kind = "throw"
              THEN /\ ~eng.results[k].success
                   /\ eng.results[k].errorMessage =
                         <<"Hook execution failed:">> \o eng.postOutcomes[k].errorMessage
              ELSE /\ eng.results[k].success = eng.postOutcomes[k].success
                   /\ eng.results[k].errorMessage = eng.postOutcomes[k].errorMessage
        /\ eng.handled /\ eng.finalResult.shouldProceed

C16_Witness ==
    /\ eng.pc = "postDone"
    /\ eng.postInvoked = <<"lessons_learned", "trace_writer">>
    /\ eng.postOutcomes[1].kind = "throw"
    /\ eng.postOutcomes[2].kind = "return" /\ ~eng.postOutcomes[2].success


\* The ids of the records of active_intents.yaml, as read at the call, whose
\* status is IN_PROGRESS.
InProgressAtCall ==
    IF last.intents.kind # "list" THEN {}
    ELSE {last.intents.records[i].id :
             i \in {j \in 1..Len(last.intents.records) :
                       last.intents.records[j].status = "IN_PROGRESS"}}

SelectCalled == Called /\ last.args.name = "select_active_intent"

GivenIntent == IF last.args.nIntent # None THEN last.args.nIntent ELSE last.args.pIntent

\* C17: a call changes the session's active intent only when it is a
\* select_active_intent call that passed, and the id then active is the id of
\* a record that active_intents.yaml held with status IN_PROGRESS when the hook
\* read it (the id asked for, when one was given); a select for an id that is
\* unknown or not IN_PROGRESS, or on a file that is missing, unreadable,
\* unparseable or without a list, returns shouldProceed=false, leaves the
\* active intent as it was and runs no handler.
C17_OnlyInProgressSelected ==
    /\ (Called /\ task.activeIntent # last.before.activeIntent) =>
          SelectCalled /\ last.res.shouldProceed
    /\ (SelectCalled /\ last.res.shouldProceed) =>
          /\ task.activeIntent.id \in InProgressAtCall
          /\ GivenIntent # None => task.activeIntent.id = GivenIntent
    /\ (SelectCalled /\ GivenIntent # None /\ GivenIntent \notin InProgressAtCall) =>
          /\ ~last.res.shouldProceed
          /\ task.activeIntent = last.before.activeIntent
          /\ ~last.handled

C17_Witness ==
    /\ SelectCalled
    /\ GivenIntent = "i1"
    /\ last.intents.kind = "unparseable"
    /\ ~last.res.shouldProceed
    /\ task.activeIntent.id = "i1"


\* The decisions recorded in the call for the answer to a prompt, as opposed
\* to those recorded for a safe command or a reused approval.
PromptDecisions ==
    LET answersPrompt(d) == d.reason \notin {"safe_command", "reused_approval"}
    IN SelectSeq(last.recorded, answersPrompt)

\* C18 as stated: every prompt the gate showed in a call has exactly one
\* Decision recorded for it, in order, whose decision is the user's answer.
C18_AsStated ==
    Called =>
        /\ Len(PromptDecisions) = Len(last.prompts)
        /\ \A i \in 1..Len(last.prompts) :
              i <= Len(PromptDecisions) =>
                  PromptDecisions[i].decision = Word(last.prompts[i].approved)

\* The error types of the vetoes the gate gives after a denied prompt.
DenialTypes ==
    {"command_not_authorized", "destructive_intent_denied", "destructive_operation_denied",
     "stale_lock", "unknown_targets", "scope_violation"}

CachedDenialTypes == {"destructive_intent_denied", "destructive_operation_denied"}

DeniedInCall == \E i \in 1..Len(last.prompts) : ~last.prompts[i].approved

DenialVeto == Called /\ ~last.res.shouldProceed /\ last.res.error.error_type \in DenialTypes

C20_PassThrough ==
    (Called /\ (last.args.partial \/ last.args.name = "select_active_intent")) =>
        /\ last.gateRes = Proceed
        /\ last.prompts = <<>>
        /\ last.recorded = <<>>

C20_Witness ==
    /\ Called
    /\ last.args.partial
    /\ last.args.name = "write_to_file"
    /\ ~HasIntent
    /\ last.gateRes.shouldProceed

\* ------------------------------------------------------------------------
\* The optimistic lock and the post-hooks (SpecLock, SpecLessons, SpecTrace)
\* ------------------------------------------------------------------------
IsBinaryFile(file) == file.exists /\ isBinaryBuffer(file.bytes)

\* The file on disk differs from the file the snapshot was taken of.
ChangedSince(then, now) ==
    \/ then.exists # now.exists
    \/ then.exists /\ now.exists /\ hashBuffer(then.bytes) # hashBuffer(now.bytes)

\* C21 (as stated): for a path that has a snapshot under the tool call id,
\* checkOptimisticLock declares the file stale exactly when the file's
\* existence disagrees with the snapshot's or both exist and the content
\* hashes differ; a binary file is never declared stale. Violated: a text
\* file with a byte that is not valid UTF-8 is declared stale although nobody
\* wrote it, because the snapshot keeps the decoded string and the check
\* hashes the raw bytes.
C21_AsStated ==
    (tw.check.called /\ tw.check.hadSnapshot) =>
        ((tw.check.result # NoResult) <=>
            /\ ~IsBinaryFile(tw.check.snapFile)
            /\ ~IsBinaryFile(tw.check.file)
            /\ ChangedSince(tw.check.snapFile, tw.check.file))

\* C30: checkOptimisticLock records a VerificationFailure and marks the path
\* stale-blocked exactly when it returns the stale_file error, whose hashes
\* are those of the recorded failure; when it returns null the stale-block
\* store and the last verification failure are what they were.
C30_RecordsExactlyWhenStale ==
    tw.check.called =>
        IF tw.check.result = NoResult
        THEN /\ tw.check.after.staleFileBlocks = tw.check.before.staleFileBlocks
             /\ tw.check.after.lastVerificationFailure = tw.check.before.lastVerificationFailure
        ELSE LET failure == tw.check.after.lastVerificationFailure
             IN /\ tw.check.result.type = "stale_file"
                /\ getStaleFileBlock(tw.check.after, tw.check.path)
                /\ failure.type = "stale_file"
                /\ failure.path = tw.check.path
                /\ failure.expected_hash = tw.check.result.expected_hash
                /\ failure.actual_hash = tw.check.result.actual_hash
                /\ failure # tw.check.before.lastVerificationFailure

C30_Witness ==
    /\ tw.check.called
    /\ tw.check.result # NoResult
    /\ tw.check.before.staleFileBlocks = {}
    /\ tw.check.snapFile = File(<<"a">>)
    /\ tw.check.file = File(<<"b">>)

C24_AsStated ==
    \A i \in 1..Len(traceFile) :
        \A k \in 1..Len(traceFile[i].files) :
            traceFile[i].files[k].content_hash =
                IF tw.diskAtAppend[i].exists THEN hashBuffer(tw.diskAtAppend[i].bytes) ELSE <<>>

\* C22 (as stated): a stale block on a path is cleared by a successful
\* write: once the apply_patch handler has written its targets, none of them
\* is stale-blocked. Violated: no handler clears a block (only an approved
\* override in the gate does), and the gate skips the stale check under an
\* ignore-listed intent, so the write succeeds and the block stays.
C22_AsStated ==
    (phase = "handled" /\ last.wrote /\ last.args.name = "apply_patch") =>
        \A p \in Range(Targets) : ~getStaleFileBlock(task, p)

\* ------------------------------------------------------------------------
\* The classifiers (SpecClassify, SpecRegistry, SpecScope)
\* ------------------------------------------------------------------------
\* The rules of the claim in their order: project safe, project destructive,
\* built-in safe, built-in destructive.
RuleHits(normalized, policy) ==
    LET safe == IF policy.present THEN policy.safe ELSE <<>>
        destructive == IF policy.present THEN policy.destructive ELSE <<>>
    IN [i \in 1..Len(safe) |->
           [hit |-> patternTest(safe[i], normalized), verdict |-> "safe"]]
       \o [i \in 1..Len(destructive) |->
              [hit |-> patternTest(destructive[i], normalized), verdict |-> "destructive"]]
       \o << [hit |-> builtinSafe(normalized), verdict |-> "safe"],
             [hit |-> builtinDestructive(normalized), verdict |-> "destructive"] >>

\* C25: classifyCommand calls a command destructive when it is empty or holds
\* "<" or ">", whatever the policy; otherwise the first match among project
\* safe patterns, project destructive patterns, built-in safe patterns and
\* built-in destructive patterns decides; a command matching nothing is
\* destructive.
C25_PolicyOrder ==
    cmdCall.result # None =>
        LET normalized == toLowerCase(Trim(cmdCall.command))
            rules == RuleHits(normalized, cmdCall.policy)
            hits == {i \in 1..Len(rules) : rules[i].hit}
            first == CHOOSE i \in hits : \A j \in hits : i <= j
        IN cmdCall.result =
              IF normalized = <<>> \/ (\E i \in 1..Len(normalized) : normalized[i] \in {"<", ">"})
              THEN "destructive"
              ELSE IF hits = {} THEN "destructive"
              ELSE rules[first].verdict

C25_Witness ==
    /\ cmdCall.result = "safe"
    /\ cmdCall.command = <<"RM", "_", "x">>
    /\ cmdCall.policy.present

\* C26 (as stated): after any sequence of registerDestructiveTool and
\* unregisterDestructiveTool calls a tool is mutating exactly when it is
\* destructive and is not execute_command. Violated: the calls change
\* destructiveTools only, mutatingTools is a separate fixed set.
C26_AsStated ==
    \A n \in RegistryTools :
        isMutatingToolIn(registry.mutating, n) <=>
            (isDestructiveToolIn(registry.destructive, n) /\ n # "execute_command")

\* C29: a scope entry without * ? [ ] matches a target exactly when the
\* target's resolved path is the entry's resolved path or lies beneath it at
\* a separator boundary ("s" matches "s/a", not "sx"); an entry with one of
\* these characters is matched as a gitignore pattern against the target's
\* path relative to the workspace.
C29_ScopeMatch ==
    scopeCall.result \in {"true", "false"} =>
        LET root == ResolveRel(scopeCall.scope)
            target == ResolveRel(scopeCall.target)
            beneath == \/ /\ root.up = target.up
                          /\ \E k \in 0..Len(target.segs) : SubSeq(target.segs, 1, k) = root.segs
                       \/ root.segs = <<>> /\ root.up > target.up
        IN (scopeCall.result = "true") <=>
              IF \E i \in 1..Len(scopeCall.scope) : scopeCall.scope[i] \in GlobSegments
              THEN ignores(scopeCall.scope, target.segs)
              ELSE beneath

C29_Witness ==
    /\ scopeCall.scope = <<"s">>
    /\ scopeCall.target = <<"sx", "a">>
    /\ scopeCall.result = "false"

\* ------------------------------------------------------------------------
\* The context block and its brief history (SpecHistory)
\* ------------------------------------------------------------------------
IsHistoryToken(tok) == tok.tag \in {"trace_entry", "no_previous_work"}

IsOtherToken(tok) == ~IsHistoryToken(tok)

\* The context block without its <brief_history> content.
StripHistory(context) == SelectSeq(context, IsOtherToken)

HistoryOf(context) == SelectSeq(context, IsHistoryToken)

\* A select that passed for the intent that was already active.
SelectedAgain ==
    /\ SelectCalled
    /\ last.res.shouldProceed
    /\ last.before.activeIntent.id = task.activeIntent.id

RecordsOf(file, intentId) ==
    LET isIt(r) == r.id = intentId IN SelectSeq(file.records, isIt)

\* Both selections read the same AGENT.md and the same record of the intent.
SameFilesRead ==
    /\ last.selectedBefore.sharedKnowledge = last.sharedKnowledge
    /\ RecordsOf(last.selectedBefore.intents, task.activeIntent.id)
           = RecordsOf(last.intents, task.activeIntent.id)

\* C27 (as stated): selecting the same intent_id twice yields the same
\* context_block except for brief_history. Violated: the block embeds AGENT.md
\* and the intent's record as they are read at each selection, and both
\* change between selections (LessonsLearnedHook appends to AGENT.md).
C27_AsStated ==
    SelectedAgain =>
        StripHistory(last.before.activeIntent.context) = StripHistory(task.activeIntent.context)

\* C27 (amended): two selections of the same intent_id that read the same
\* AGENT.md and the same record of the intent yield the same context_block
\* except for brief_history, however the ledger changed in between.
C27_SameFilesSameBlock ==
    (SelectedAgain /\ SameFilesRead) =>
        StripHistory(last.before.activeIntent.context) = StripHistory(task.activeIntent.context)

C27_Witness ==
    /\ SelectedAgain
    /\ SameFilesRead
    /\ task.activeIntent.id = "i1"
    /\ HistoryOf(last.before.activeIntent.context) # HistoryOf(task.activeIntent.context)

\* C28 (as stated): brief_history of the session's context block holds the
\* last five entries, in ledger order, of the lines of agent_trace.jsonl that
\* parse and are related to the intent, through a files[*].conversations[*]
\* .related link or through their top-level intent_id. Violated: the hook
\* looks at the links only, so an entry with the intent's id and no file
\* record is left out.
C28_AsStated ==
    (SelectCalled /\ last.res.shouldProceed) =>
        LET intentId == task.activeIntent.id
            related(line) == line.parses /\ (line.intent_id = intentId \/ linksTo(line, intentId))
            all == SelectSeq(last.traceLines, related)
            lastFive == IF Len(all) <= 5 THEN all ELSE SubSeq(all, Len(all) - 4, Len(all))
        IN HistoryOf(task.activeIntent.context) =
              IF lastFive = <<>> THEN <<[tag |-> "no_previous_work", val |-> <<>>]>>
              ELSE [i \in 1..Len(lastFive) |-> [tag |-> "trace_entry", val |-> <<lastFive[i].id>>]]

\* computeAddedRanges on every pair of contents within the bounds.
RangesSpecInit ==
    /\ GateInit /\ intentsFile = WorkspaceIntents /\ ignoreFile = <<>> /\ decisionsFile = <<>>
    /\ decisionsWritable = TRUE /\ AppendInit /\ PatchIdle /\ EngineIdle /\ TraceIdle
    /\ cmdCall = NoCmdCall
    /\ registry = InitRegistry
    /\ scopeCall = NoScopeCall
    /\ rangeCall \in [before : Contents(MaxBeforeLines, {"n", "r"}),
                       after : Contents(MaxAfterLines, {"n", "rn"}),
                       script : {<<>>}, ranges : {<<>>}, done : {FALSE}]
    /\ patchRun = NoPatchRun

RangesNext == ComputeRanges

SpecRanges == RangesSpecInit /\ [][RangesNext]_vars

\* One apply_patch call on every patch of up to MaxChanges files, while
\* another process writes some of them.
MultiSpecInit ==
    /\ GateInit /\ intentsFile = WorkspaceIntents /\ ignoreFile = <<>> /\ decisionsFile = <<>>
    /\ decisionsWritable = TRUE /\ AppendInit /\ PatchIdle /\ EngineIdle /\ TraceIdle
    /\ cmdCall = NoCmdCall
    /\ registry = InitRegistry
    /\ scopeCall = NoScopeCall
    /\ rangeCall = NoRangeCall
    /\ patchRun \in {[NoPatchRun EXCEPT !.changes = changes] : changes \in ChangeLists}

MultiNext ==
    \/ \E accessAllowed \in BOOLEAN, approved \in BOOLEAN : ProcessChange(accessAllowed, approved)
    \/ \E relPath \in PatchPaths : SiblingWritesTarget(relPath)

SpecMulti == MultiSpecInit /\ [][MultiNext]_vars

\* C31: once the trace-writer post-hook of a mutating tool call has returned,
\* the session's snapshot store holds no entry for that call id.
C31_AsStated ==
    tw.writer.returned => tw.writer.key \notin DOMAIN task.traceSnapshots

\* The id of the active intent is a line of .intentignore that is not a comment.
ListedInIgnoreFile ==
    /\ HasIntent
    /\ \E i \in 1..Len(last.ignoreLines) :
           ~last.ignoreLines[i].comment /\ last.ignoreLines[i].text = ActiveBefore.id

\* C32: a complete tool call under an active intent whose id .intentignore
\* lists passes the gate with no prompt, no recorded decision and no change
\* to the session (no later check is applied); a complete call to a
\* destructive tool or to execute_command with no active intent is vetoed
\* with the no-active-intent message whatever the file lists.
C32_IgnoreListedPasses ==
    /\ (Called /\ ~last.args.partial /\ ListedInIgnoreFile) =>
           /\ last.gateRes = Proceed
           /\ last.prompts = <<>>
           /\ last.recorded = <<>>
           /\ last.toolUse = last.args
           /\ (phase = "gated" /\ last.args.name # "select_active_intent") =>
                  task = last.before
    /\ (Called /\ ~last.args.partial /\ ~HasIntent
           /\ (isDestructiveTool(last.args.name) \/ last.args.name = "execute_command")) =>
           last.gateRes = Veto(NoActiveIntentMessage)

\* A write under the ignore-listed intent to a stale-blocked path outside
\* its scope, without mutation metadata, has passed the gate.
C32_Witness ==
    /\ phase = "gated"
    /\ ~last.args.partial
    /\ ListedInIgnoreFile
    /\ isMutatingTool(last.args.name)
    /\ last.args.pIntent = None /\ last.args.nIntent = None
    /\ \E p \in Range(Targets) : getStaleFileBlock(last.before, p)
    /\ last.res.shouldProceed

\* The lines of the new text that the script adds, by their line number.
AddedLines(script) ==
    {Cardinality({j \in 1..i : script[j] # "del"}) :
        i \in {k \in 1..Len(script) : script[k] = "add"}}

CoveredLines(ranges) ==
    UNION {ranges[i].start_line .. ranges[i].end_line : i \in 1..Len(ranges)}

\* C33: every range of computeAddedRanges(before, after) lies within the
\* lines of after with start_line <= end_line, the ranges ascend without
\* overlap, the lines they cover are exactly the lines the diff reports as
\* added, and an empty before with n >= 1 lines of after gives the single
\* range [1, n].
C33_AddedRanges ==
    rangeCall.done =>
        LET ranges == rangeCall.ranges
            n == Len(rangeCall.after)
        IN /\ \A i \in 1..Len(ranges) :
                  1 <= ranges[i].start_line /\ ranges[i].start_line <= ranges[i].end_line
                      /\ ranges[i].end_line <= n
           /\ \A i \in 1..(Len(ranges) - 1) : ranges[i].end_line < ranges[i + 1].start_line
           /\ CoveredLines(ranges) = AddedLines(rangeCall.script)
           /\ (rangeCall.before = <<>> /\ n >= 1) =>
                  (Len(ranges) = 1 /\ ranges[1].start_line = 1 /\ ranges[1].end_line = n)

\* Two separate runs of added lines around a kept line, the second one
\* ending the file without a line end.
C33_Witness ==
    /\ rangeCall.done
    /\ Len(rangeCall.ranges) = 2
    /\ rangeCall.ranges[1].end_line = 1
    /\ rangeCall.ranges[2].start_line = 3
    /\ rangeCall.after[3].eol = ""
    /\ rangeCall.after[1].eol = "rn"
    /\ "del" \in Range(rangeCall.script)

\* The record of the active intent that active_intents.yaml held when the call
\* arrived (the first with its id) has a status other than IN_PROGRESS.
InvalidatedAtCall ==
    /\ HasIntent
    /\ last.intents.kind = "list"
    /\ \E i \in 1..Len(last.intents.records) :
           /\ last.intents.records[i].id = ActiveBefore.id
           /\ last.intents.records[i].status # "IN_PROGRESS"
           /\ \A j \in 1..(i - 1) : last.intents.records[j].id # ActiveBefore.id

\* C34: a complete call to a destructive tool that arrives after the active
\* intent's status in active_intents.yaml has stopped being IN_PROGRESS, and
\* before another select, is vetoed.
C34_AsStated ==
    (Called /\ ~last.args.partial /\ isDestructiveTool(last.args.name) /\ InvalidatedAtCall) =>
        ~last.gateRes.shouldProceed

\* C35: after the handler of one file change of the patch has reported
\* stale_file, the call writes no later file change of the patch.
C35_AsStated ==
    \A i \in 1..Len(patchRun.results) :
        patchRun.results[i] = "stale_file" =>
            \A j \in (i + 1)..Len(patchRun.results) : patchRun.results[j] # "ok"

\* The call deletes or moves files: getDestructiveOperationInfo finds a
\* Delete File or a Move to line in its patch.
DeletesOrMoves == getDestructiveOperationInfo(last.args)

\* C36: a complete mutating call under an enforced intent that deletes or
\* moves files and passes the gate was either prompted in this call, or
\* follows an approval given in this session at a destructive prompt for the
\* same tool and the same target paths.
C36_AsStated ==
    (Enforced /\ isMutatingTool(last.args.name) /\ DeletesOrMoves /\ last.gateRes.shouldProceed) =>
        \/ last.prompts # <<>>
        \/ <<last.args.name, Targets>> \in hist.approvedFor

\* C37: with no project policy file, classifyCommand does not return safe for
\* a command line that holds a match of a built-in destructive pattern.
C37_AsStated ==
    (cmdCall.result # None /\ ~cmdCall.policy.present
        /\ builtinDestructive(toLowerCase(Trim(cmdCall.command)))) =>
        cmdCall.result # "safe"

\* C38: the owned scope the gate reads for the active intent is the
\* owned_scope list of the intent's record in active_intents.yaml.
C38_AsStated ==
    task.activeIntent.id # None =>
        Range(getOwnedScopeFromTask(task.activeIntent)) = DeclaredScope(task.activeIntent.id)

\* The select_active_intent call failed: a pre-hook vetoed it, or its handler
\* pushed an error.
SelectFailed ==
    /\ SelectCalled
    /\ ~last.args.partial
    /\ \/ ~last.res.shouldProceed
       \/ last.handled /\ last.handlerError # None

\* C39: a select_active_intent call that fails leaves the session's active
\* intent as it was before the call.
C39_AsStated ==
    SelectFailed => task.activeIntent = last.before.activeIntent

\* C40: the lock file exists only while the appendWithLock call that created
\* it is still between its fs.open and the end of its finally block.
C40_AsStated ==
    lockExists => \E p \in Procs : apc[p] \in {"append", "release"}

=============================================================================
